---- MODULE Spec2Model ----
(***************************************************************************)
(* Model of the OpenMP task data-sharing and dependence analysis of        *)
(* psyclone/psyir/nodes/omp_directives.py: OMPTaskDirective.compute_clauses*)
(* with its helpers handle_readonly_reference and handle_binary_op.        *)
(*                                                                         *)
(* A Python str is modelled as the sequence of the lexemes it was built    *)
(* from ("a(i+(n - 1))" is <<"a","(","i","+(","n"," - ","1",")",")">>),    *)
(* so string concatenation is \o and string equality is sequence equality. *)
(* A PSyIR node is a record [type, name, value, operator, children].       *)
(* compute_clauses is run one step of its statement loop at a time: the    *)
(* statements of the walk over the task body arrive in pre-order, one per  *)
(* step, an assignment in two steps (left-hand side, then right-hand side).*)
(*                                                                         *)
(* Two more analyses of the same file have a specification of their own:   *)
(* validate_global_constraints of the directive classes (SpecValidate),    *)
(* over a directive, the classes of the nodes above it and the children of *)
(* its Schedule, and OMPParallelDirective._get_private_list (SpecPrivate), *)
(* over the accesses that reference_accesses reports for the region.       *)
(***************************************************************************)
EXTENDS Integers, Sequences, FiniteSets, TLC

VARIABLES loop_var, start_val, stop_val, step_val, parallel_private,
          private_list, firstprivate_list, shared_list, in_list, out_list,
          ref, statement, nstatements, pc, raised,
          directive, ancestors, outcomes,
          region_ancestors, kernel_locals, var_accesses, result, signatures,
          list_result, stage,
          added, region,
          access, dimension, other, method, answer,
          expression, evaluation,
          routine, transformed, applied,
          task_body, returns

(* The variables of compute_clauses. *)
task == <<loop_var, start_val, stop_val, step_val, parallel_private,
          private_list, firstprivate_list, shared_list, in_list, out_list,
          ref, statement, nstatements, pc, raised>>

(* The variables of validate_global_constraints. *)
validation == <<directive, ancestors, outcomes>>

(* The variables of _get_private_list. *)
classification == <<region_ancestors, kernel_locals, var_accesses, result,
                    signatures, list_result, stage>>

(* The variables of gen_code, with those of validate_global_constraints. *)
generation == <<added, region>>

(* The variables of the calls of the methods of ArrayMixin. *)
arrays == <<access, dimension, other, method, answer>>

(* The variables of a call of ReferenceEvaluation.evaluate_as_boolean. *)
evaluator == <<expression, evaluation>>

(* The variables of a call of RemoveIfBlockTrans.apply. *)
removal == <<routine, transformed, applied>>

(* The body of the governing loop of a task, and what the calls made on the  *)
(* tree so far have returned.                                                *)
repeat == <<task_body, returns>>

vars == <<task, validation, classification, generation, arrays, evaluator,
          removal, repeat>>

(* What the actions of one analysis leave alone. *)
not_task ==
  <<validation, classification, generation, arrays, evaluator, removal, repeat>>

not_validation ==
  <<task, classification, generation, arrays, evaluator, removal, repeat>>

not_classification ==
  <<task, validation, generation, arrays, evaluator, removal, repeat>>

not_generation ==
  <<task, classification, arrays, evaluator, removal, repeat>>

not_array ==
  <<task, validation, classification, generation, evaluator, removal, repeat>>

not_evaluation ==
  <<task, validation, classification, generation, arrays, removal, repeat>>

not_removal ==
  <<task, validation, classification, generation, arrays, evaluator, repeat>>

not_repeat ==
  <<task, validation, classification, generation, arrays, evaluator, removal>>

tree == <<loop_var, start_val, stop_val, step_val, parallel_private>>

lists == <<private_list, firstprivate_list, shared_list, in_list, out_list>>

(* Number of statements of the task body that the walk visits. *)
MaxStatements == 2

----------------------------------------------------------------------------
(* PSyIR nodes *)

Node(t, n, v, o, c) ==
  [type |-> t, name |-> n, value |-> v, operator |-> o, children |-> c]

Literal(v) == Node("Literal", "", v, "", <<>>)

Reference(n) == Node("Reference", n, "", "", <<>>)

ArrayReference(n, idx) == Node("ArrayReference", n, "", "", idx)

Member(n) == Node("Member", n, "", "", <<>>)

StructureReference(n, m) == Node("StructureReference", n, "", "", <<Member(m)>>)

ArrayOfStructuresReference(n, m, idx) ==
  Node("ArrayOfStructuresReference", n, "", "", <<Member(m)>> \o idx)

BinaryOperation(o, l, r) == Node("BinaryOperation", "", "", o, <<l, r>>)

UnaryOperation(o, c) == Node("UnaryOperation", "", "", o, <<c>>)

Loop(v, start, stop, step) == Node("Loop", v, "", "", <<start, stop, step>>)

(* The value of a local variable that no statement has assigned yet. *)
Unbound == Node("<unbound>", "", "", "", <<>>)

(* No part of any statement has been processed yet. *)
NoStatement == [kind |-> "", part |-> "", node |-> Unbound]

(* isinstance(node, Reference): Reference and all of its subclasses. *)
IsReference(node) ==
  node.type \in {"Reference", "ArrayReference", "StructureReference",
                 "ArrayOfStructuresReference"}

(* isinstance(node, (ArrayReference, ArrayOfStructuresReference)) *)
IsArrayRef(node) ==
  node.type \in {"ArrayReference", "ArrayOfStructuresReference"}

(* ArrayMixin.indices: the index expressions of an array access. *)
indices(node) ==
  IF node.type = "ArrayOfStructuresReference" THEN Tail(node.children)
  ELSE node.children

RECURSIVE walk(_, _), walk_children(_, _)
(* Node.walk(my_type): the nodes of the given types under node, pre-order. *)
walk(node, types) ==
  (IF node.type \in types THEN <<node>> ELSE <<>>)
    \o walk_children(node.children, types)

walk_children(children, types) ==
  IF children = <<>> THEN <<>>
  ELSE walk(Head(children), types) \o walk_children(Tail(children), types)

ReferenceTypes ==
  {"Reference", "ArrayReference", "StructureReference",
   "ArrayOfStructuresReference"}

----------------------------------------------------------------------------
(* Text *)

RECURSIVE join(_, _)
(* sep.join(strings) *)
join(sep, strings) ==
  IF strings = <<>> THEN <<>>
  ELSE IF Len(strings) = 1 THEN Head(strings)
  ELSE Head(strings) \o <<sep>> \o join(sep, Tail(strings))

(* The Fortran text of an operator. *)
OperatorText(o) ==
  CASE o = "ADD" -> " + "
    [] o = "SUB" -> " - "
    [] o = "MUL" -> " * "
    [] OTHER -> " ? "

RECURSIVE writer(_), writer_all(_)
(* FortranWriter()(node): the Fortran text of an expression. *)
writer(node) ==
  CASE node.type = "Literal" -> <<node.value>>
    [] node.type = "Reference" -> <<node.name>>
    [] node.type = "BinaryOperation" ->
         writer(node.children[1]) \o <<OperatorText(node.operator)>>
           \o writer(node.children[2])
    [] node.type = "UnaryOperation" -> <<"-">> \o writer(node.children[1])
    [] node.type = "ArrayReference" ->
         <<node.name, "(">> \o join(", ", writer_all(node.children)) \o <<")">>
    [] node.type = "StructureReference" ->
         <<node.name, "%", node.children[1].name>>
    [] node.type = "ArrayOfStructuresReference" ->
         <<node.name, "%", node.children[1].name, "(">>
           \o join(", ", writer_all(Tail(node.children))) \o <<")">>
    [] OTHER -> <<"?">>

writer_all(nodes) ==
  IF nodes = <<>> THEN <<>>
  ELSE <<writer(Head(nodes))>> \o writer_all(Tail(nodes))

(* FortranWriter() applied to a symbol or to a symbol's name: the name. *)
writer_symbol(name) == <<name>>

(* string in list *)
In(string, list) == \E k \in 1..Len(list) : list[k] = string

----------------------------------------------------------------------------
(* OMPTaskDirective.handle_binary_op *)

(* span_index with the sign of '+' for both operators. *)
span_index_plus(index_name, operator, start, stop) ==
  index_name \o <<"+(">> \o writer(stop) \o <<" - ">> \o writer(start)
    \o <<")">>

(* "+({stop} - {start})" or "-({stop} - {start})" appended to the name. *)
span_index(index_name, operator, start, stop) ==
  index_name
    \o <<IF operator = "ADD" THEN "+(" ELSE "-(">>
    \o writer(stop) \o <<" - ">> \o writer(start) \o <<")">>

(* The operand types handle_binary_op accepts: one Reference, one Literal. *)
reference_and_literal(node) ==
  \/ /\ node.children[1].type = "Reference"
     /\ node.children[2].type = "Literal"
  \/ /\ node.children[1].type = "Literal"
     /\ node.children[2].type = "Reference"

(* The text of the operand that is a Reference (the second wins). *)
binary_op_index_name(node) ==
  IF node.children[2].type = "Reference"
  THEN writer_symbol(node.children[2].name)
  ELSE IF node.children[1].type = "Reference"
  THEN writer_symbol(node.children[1].name)
  ELSE <<>>

(* What a handler hands back: the lists it changes and the exception it    *)
(* raises ("" for none).                                                    *)
BinaryOpResult(index_strings, firstprivate, exc) ==
  [index_strings |-> index_strings, firstprivate_list |-> firstprivate,
   exc |-> exc]

handle_binary_op(node, index_strings, firstprivate, private, parallel, start, stop) ==
  LET index_name == binary_op_index_name(node)
      widened == span_index(index_name, node.operator, start, stop)
  IN IF node.operator \notin {"ADD", "SUB"}
     THEN BinaryOpResult(index_strings, firstprivate, "GenerationError")
     ELSE IF ~reference_and_literal(node)
     THEN BinaryOpResult(index_strings, firstprivate, "GenerationError")
     ELSE IF index_name \in parallel
     THEN IF In(index_name, private)
          THEN BinaryOpResult(Append(index_strings, widened), firstprivate, "")
          ELSE IF In(index_name, firstprivate)
          THEN BinaryOpResult(Append(index_strings, widened), firstprivate, "")
          ELSE BinaryOpResult(Append(index_strings, widened),
                              Append(firstprivate, index_name), "")
     ELSE BinaryOpResult(index_strings, firstprivate, "GenerationError")

----------------------------------------------------------------------------
(* OMPTaskDirective.handle_readonly_reference *)

ReadonlyResult(firstprivate, in, exc) ==
  [firstprivate_list |-> firstprivate, in_list |-> in, exc |-> exc]

RECURSIVE readonly_indices(_, _, _, _, _, _, _)
(* The loop over ref.indices of a shared array that is read: the index      *)
(* strings and the firstprivate list it builds, or the exception.           *)
readonly_indices(idx, index_list, firstprivate, private, parallel, start, stop) ==
  IF idx = <<>> THEN BinaryOpResult(index_list, firstprivate, "")
  ELSE
    LET index == Head(idx)
        index_name == <<index.name>>
        step ==
          IF index.type = "Reference"
          THEN IF index_name \in parallel
               THEN IF In(index_name, private)
                    THEN BinaryOpResult(Append(index_list, index_name),
                                        firstprivate, "")
                    ELSE IF In(index_name, firstprivate)
                    THEN BinaryOpResult(Append(index_list, index_name),
                                        firstprivate, "")
                    ELSE BinaryOpResult(Append(index_list, index_name),
                                        Append(firstprivate, index_name), "")
               ELSE BinaryOpResult(index_list, firstprivate, "GenerationError")
          ELSE IF index.type = "BinaryOperation"
          THEN handle_binary_op(index, index_list, firstprivate, private,
                                parallel, start, stop)
          ELSE BinaryOpResult(index_list, firstprivate, "GenerationError")
    IN IF step.exc # "" THEN step
       ELSE readonly_indices(Tail(idx), step.index_strings,
                             step.firstprivate_list, private, parallel,
                             start, stop)

(* name + "(" + ", ".join(index_list) + ")" *)
depend_clause(name, index_list) ==
  name \o <<"(">> \o join(", ", index_list) \o <<")">>

(* A scalar or structure name that is read. *)
readonly_name(name, firstprivate, private, in, parallel) ==
  IF name \in parallel
  THEN IF ~In(name, private) /\ ~In(name, firstprivate)
       THEN ReadonlyResult(Append(firstprivate, name), in, "")
       ELSE ReadonlyResult(firstprivate, in, "")
  ELSE IF ~In(name, in)
       THEN ReadonlyResult(firstprivate, Append(in, name), "")
       ELSE ReadonlyResult(firstprivate, in, "")

(* shared_list, out_list and step_val are parameters the code never uses.   *)
handle_readonly_reference(node, firstprivate, private, shared, in, out, parallel, start, stop, step) ==
  IF IsArrayRef(node)
  THEN LET name == <<node.name>>
       IN IF name \in parallel
          THEN LET fp == IF ~In(name, private) /\ ~In(name, firstprivate)
                         THEN Append(firstprivate, name) ELSE firstprivate
               IN ReadonlyResult(fp, Append(in, depend_clause(name, <<>>)), "")
          ELSE LET r == readonly_indices(indices(node), <<>>, firstprivate,
                                         private, parallel, start, stop)
               IN IF r.exc # ""
                  THEN ReadonlyResult(r.firstprivate_list, in, r.exc)
                  ELSE ReadonlyResult(r.firstprivate_list,
                         Append(in, depend_clause(name, r.index_strings)), "")
  ELSE IF node.type = "StructureReference"
  THEN readonly_name(writer_symbol(node.name), firstprivate, private, in,
                     parallel)
  ELSE readonly_name(<<node.name>>, firstprivate, private, in, parallel)

RECURSIVE readonly_references(_, _, _, _, _, _, _, _, _, _)
(* for ref in references: handle_readonly_reference(ref, ...) *)
readonly_references(refs, firstprivate, private, shared, in, out, parallel, start, stop, step) ==
  IF refs = <<>> THEN ReadonlyResult(firstprivate, in, "")
  ELSE LET r == handle_readonly_reference(Head(refs), firstprivate, private,
                  shared, in, out, parallel, start, stop, step)
       IN IF r.exc # "" THEN r
          ELSE readonly_references(Tail(refs), r.firstprivate_list, private,
                 shared, r.in_list, out, parallel, start, stop, step)

----------------------------------------------------------------------------
(* OMPTaskDirective.compute_clauses: the header of the governing loop *)

HeaderResult(firstprivate, r, exc) ==
  [firstprivate_list |-> firstprivate, ref |-> r, exc |-> exc]

(* The body shared by the three header loops, run on the local `ref`: a    *)
(* read of `ref` before any assignment to it raises UnboundLocalError.      *)
header_reference(r, firstprivate) ==
  IF r = Unbound THEN HeaderResult(firstprivate, r, "UnboundLocalError")
  ELSE IF IsArrayRef(r) THEN HeaderResult(firstprivate, r, "GenerationError")
  ELSE HeaderResult(Append(firstprivate, writer(r)), r, "")

RECURSIVE start_val_loop(_, _, _)
(* for ref in start_val_refs: the loop variable is `ref`. `ref not in       *)
(* firstprivate_list` compares a node with strings and is always true.      *)
start_val_loop(refs, r, firstprivate) ==
  IF refs = <<>> THEN HeaderResult(firstprivate, r, "")
  ELSE LET h == header_reference(Head(refs), firstprivate)
       IN IF h.exc # "" THEN h
          ELSE start_val_loop(Tail(refs), h.ref, h.firstprivate_list)

RECURSIVE stop_step_val_loop(_, _, _)
(* for sig in stop_val_refs / step_val_refs: the loop variable is `sig`,    *)
(* the body still reads `ref`, which keeps the value the start loop left.   *)
stop_step_val_loop(sigs, r, firstprivate) ==
  IF sigs = <<>> THEN HeaderResult(firstprivate, r, "")
  ELSE LET h == header_reference(r, firstprivate)
       IN IF h.exc # "" THEN h
          ELSE stop_step_val_loop(Tail(sigs), h.ref, h.firstprivate_list)

(* Lines 982-1023: the three loops one after the other. *)
header_clauses(start, stop, step) ==
  LET h1 == start_val_loop(walk(start, ReferenceTypes), Unbound, <<>>)
      h2 == stop_step_val_loop(walk(stop, ReferenceTypes), h1.ref,
                               h1.firstprivate_list)
      h3 == stop_step_val_loop(walk(step, ReferenceTypes), h2.ref,
                               h2.firstprivate_list)
  IN IF h1.exc # "" THEN h1 ELSE IF h2.exc # "" THEN h2 ELSE h3

----------------------------------------------------------------------------
(* OMPTaskDirective.compute_clauses: the left-hand side of an assignment *)

LhsResult(firstprivate, shared, out, exc) ==
  [firstprivate_list |-> firstprivate, shared_list |-> shared,
   out_list |-> out, exc |-> exc]

(* if x not in list: list.append(x) *)
AppendNew(list, x) == IF In(x, list) THEN list ELSE Append(list, x)

RECURSIVE lhs_indices(_, _, _, _, _, _, _)
(* for index in indices[0] of an ArrayReference that is written *)
lhs_indices(idx, index_strings, firstprivate, private, parallel, start, stop) ==
  IF idx = <<>> THEN BinaryOpResult(index_strings, firstprivate, "")
  ELSE
    LET index == Head(idx)
        step ==
          IF index.type = "Literal"
          THEN BinaryOpResult(Append(index_strings, writer(index)),
                              firstprivate, "")
          ELSE IF IsReference(index)
          THEN BinaryOpResult(Append(index_strings, writer(index)),
                              firstprivate, "")
          ELSE IF index.type = "BinaryOperation"
          THEN handle_binary_op(index, index_strings, firstprivate, private,
                                parallel, start, stop)
          ELSE BinaryOpResult(index_strings, firstprivate, "GenerationError")
    IN IF step.exc # "" THEN step
       ELSE lhs_indices(Tail(idx), step.index_strings, step.firstprivate_list,
                        private, parallel, start, stop)

(* A scalar or structure that is written: shared and depend(out) unless it  *)
(* is private in the parallel region, and then nothing at all.              *)
lhs_name(name, firstprivate, shared, out, parallel) ==
  IF name \notin parallel
  THEN LhsResult(firstprivate, AppendNew(shared, name), AppendNew(out, name),
                 "")
  ELSE LhsResult(firstprivate, shared, out, "")

(* Lines 1029-1142. The left-hand side is a Reference, an ArrayReference or *)
(* a StructureReference.                                                    *)
assignment_lhs(lhs, firstprivate, private, shared, out, parallel, start, stop) ==
  IF lhs.type = "ArrayReference"
  THEN LET name == <<lhs.name>>
       IN IF name \in parallel
          THEN LhsResult(firstprivate, shared, out, "AssertionError")
          ELSE LET r == lhs_indices(indices(lhs), <<>>, firstprivate, private,
                                    parallel, start, stop)
               IN IF r.exc # ""
                  THEN LhsResult(r.firstprivate_list, shared, out, r.exc)
                  ELSE LhsResult(r.firstprivate_list, AppendNew(shared, name),
                         AppendNew(out, depend_clause(name, r.index_strings)),
                         "")
  ELSE IF lhs.type = "StructureReference"
  THEN lhs_name(writer_symbol(lhs.name), firstprivate, shared, out, parallel)
  ELSE lhs_name(writer(lhs), firstprivate, shared, out, parallel)

(* The references of a nested loop's start alone. *)
loop_start_references(loop) == walk(loop.children[1], ReferenceTypes)

(* Lines 1163-1187: the references of a nested loop's start, stop and step. *)
loop_references(loop) ==
  walk(loop.children[1], ReferenceTypes)
    \o walk(loop.children[2], ReferenceTypes)
    \o walk(loop.children[3], ReferenceTypes)

----------------------------------------------------------------------------
(* The trees the analysis is run on *)

i == Reference("i")

j == Reference("j")

n == Reference("n")

m == Reference("m")

One == Literal("1")

(* The variables that _get_private_list of the enclosing parallel region    *)
(* may return: scalars first written in a loop, kernel-local arrays.        *)
PrivateCandidates == {<<"i">>, <<"j">>, <<"a">>}

LoopVariables == {"i"}

(* Governing-loop headers <<start, stop, step>> for the walk over the body: *)
(* do i = 1, n (the loop of Scenario C) and do i = m, n.                     *)
BodyHeaders == {<<One, n, One>>, <<m, n, One>>}

StartExpressions == {One, n, ArrayReference("a", <<n>>)}

StopStepExpressions == {One, j, ArrayReference("a", <<n>>)}

(* Every header over these expressions. *)
AllHeaders == StartExpressions \X StopStepExpressions \X StopStepExpressions

(* Index expressions of an array access. *)
IndexExpressions ==
  {One, i, j,
   BinaryOperation("ADD", i, One), BinaryOperation("ADD", i, Literal("2")),
   BinaryOperation("SUB", i, One),
   BinaryOperation("ADD", j, One),
   BinaryOperation("SUB", One, i),
   BinaryOperation("MUL", i, Literal("2")),
   BinaryOperation("ADD", BinaryOperation("ADD", i, One), One),
   ArrayReference("a", <<i>>),
   UnaryOperation("MINUS", i)}

ArrayAccesses ==
  {ArrayReference("a", <<x>>) : x \in IndexExpressions}
    \cup {ArrayReference("b", <<i, BinaryOperation("ADD", j, One)>>)}

(* What an assignment may write. *)
LhsExpressions ==
  {j, n, StructureReference("s", "m")} \cup ArrayAccesses

(* What an if-condition may be: every shape of read. *)
ReadExpressions ==
  {One, j, n, StructureReference("s", "m"),
   ArrayOfStructuresReference("s", "m", <<i>>),
   BinaryOperation("ADD", j,
                   ArrayReference("a", <<BinaryOperation("SUB", i, One)>>))}
    \cup ArrayAccesses

(* What an assignment's right-hand side may be. *)
RhsExpressions ==
  {One, j, n, StructureReference("s", "m"),
   ArrayReference("a", <<i>>),
   ArrayReference("a", <<BinaryOperation("SUB", i, One)>>),
   ArrayReference("a", <<BinaryOperation("ADD", j, One)>>)}

NestedLoops ==
  {Loop(v, b, e, One) :
     v \in {"j", "k"}, b \in {One, n}, e \in {n, ArrayReference("a", <<i>>)}}

----------------------------------------------------------------------------
(* The three analyses of the model run one at a time: a specification holds  *)
(* the variables of the other two at these values.                           *)

(* No directive is being validated. *)
NoDirective == [type |-> "", collapse |-> 0, clauses |-> <<>>, dir_body |-> <<>>]

ValidateIdle ==
  /\ directive = NoDirective
  /\ ancestors = <<>>
  /\ outcomes = <<>>

ClassifyIdle ==
  /\ region_ancestors = <<>>
  /\ kernel_locals = <<>>
  /\ var_accesses = <<>>
  /\ result = {}
  /\ signatures = <<>>
  /\ list_result = <<>>
  /\ stage = "idle"

TaskIdle ==
  /\ loop_var = ""
  /\ start_val = Unbound
  /\ stop_val = Unbound
  /\ step_val = Unbound
  /\ parallel_private = {}
  /\ private_list = <<>>
  /\ firstprivate_list = <<>>
  /\ shared_list = <<>>
  /\ in_list = <<>>
  /\ out_list = <<>>
  /\ ref = Unbound
  /\ statement = NoStatement
  /\ nstatements = 0
  /\ pc = "idle"
  /\ raised = ""

(* A region with no reduction, whose clauses can be computed. *)
NoRegion == [reprod |-> <<>>, calls |-> <<>>, clauses |-> ""]

GenerateIdle ==
  /\ added = <<>>
  /\ region = NoRegion

ArrayIdle ==
  /\ access = [root |-> Unbound, depth |-> 0]
  /\ dimension = 0
  /\ other = Unbound
  /\ method = ""
  /\ answer = ""

EvalIdle ==
  /\ expression = Unbound
  /\ evaluation = ""

RemoveIdle ==
  /\ routine = Unbound
  /\ transformed = <<>>
  /\ applied = ""

RepeatIdle ==
  /\ task_body = <<>>
  /\ returns = <<>>

(* The methods of ArrayMixin and the two tools are idle. *)
OthersIdle == ArrayIdle /\ EvalIdle /\ RemoveIdle

OnlyTask ==
  ValidateIdle /\ ClassifyIdle /\ GenerateIdle /\ OthersIdle /\ RepeatIdle

OnlyValidation ==
  TaskIdle /\ ClassifyIdle /\ GenerateIdle /\ OthersIdle /\ RepeatIdle

OnlyClassification ==
  TaskIdle /\ ValidateIdle /\ GenerateIdle /\ OthersIdle /\ RepeatIdle

OnlyGeneration ==
  TaskIdle /\ ClassifyIdle /\ OthersIdle /\ RepeatIdle

(* compute_clauses, validate_global_constraints, _get_private_list and      *)
(* gen_code are idle.                                                        *)
DirectivesIdle ==
  TaskIdle /\ ValidateIdle /\ ClassifyIdle /\ GenerateIdle /\ RepeatIdle

OnlyArray == DirectivesIdle /\ EvalIdle /\ RemoveIdle

OnlyEvaluation == DirectivesIdle /\ ArrayIdle /\ RemoveIdle

OnlyRemoval == DirectivesIdle /\ ArrayIdle /\ EvalIdle

----------------------------------------------------------------------------
(* compute_clauses as a state machine *)

InitWith(headers, privates) ==
  /\ loop_var \in LoopVariables
  /\ \E h \in headers : start_val = h[1] /\ stop_val = h[2] /\ step_val = h[3]
  /\ parallel_private \in privates
  /\ private_list = <<>>
  /\ firstprivate_list = <<>>
  /\ shared_list = <<>>
  /\ in_list = <<>>
  /\ out_list = <<>>
  /\ ref = Unbound
  /\ statement = NoStatement
  /\ nstatements = 0
  /\ pc = "start"
  /\ raised = ""
  /\ OnlyTask

Init == InitWith(BodyHeaders, SUBSET PrivateCandidates)

(* Every header, with the scalars i and j private in the parallel region. *)
InitHeader == InitWith(AllHeaders, {{<<"i">>, <<"j">>}})

(* Where the walk goes after a step that raised exc ("" for none). *)
Goto(exc, next) ==
  /\ raised' = exc
  /\ pc' = IF exc = "" THEN next ELSE "raised"

(* Lines 952-1023: the empty lists, the loop variable, the header loops. *)
Header ==
  /\ pc = "start"
  /\ LET h == header_clauses(start_val, stop_val, step_val)
     IN /\ private_list' = <<writer_symbol(loop_var)>>
        /\ firstprivate_list' = h.firstprivate_list
        /\ ref' = h.ref
        /\ Goto(h.exc, "statements")
  /\ UNCHANGED <<not_task, tree, shared_list, in_list, out_list, statement,
                 nstatements>>

(* Lines 1028-1142: the next statement of the walk is an Assignment. *)
AssignmentLhs(lhs) ==
  /\ pc = "statements"
  /\ nstatements < MaxStatements
  /\ LET r == assignment_lhs(lhs, firstprivate_list, private_list,
                             shared_list, out_list, parallel_private,
                             start_val, stop_val)
     IN /\ firstprivate_list' = r.firstprivate_list
        /\ shared_list' = r.shared_list
        /\ out_list' = r.out_list
        /\ Goto(r.exc, "rhs")
  /\ statement' = [kind |-> "Assignment", part |-> "lhs", node |-> lhs]
  /\ UNCHANGED <<not_task, tree, private_list, in_list, ref, nstatements>>

(* What the three read-only walks have in common. *)
Readonly(refs, private, next) ==
  LET r == readonly_references(refs, firstprivate_list, private, shared_list,
                               in_list, out_list, parallel_private,
                               start_val, stop_val, step_val)
  IN /\ firstprivate_list' = r.firstprivate_list
     /\ in_list' = r.in_list
     /\ Goto(r.exc, next)

(* Lines 1144-1150: the references of the assignment's right-hand side. *)
AssignmentRhs(rhs) ==
  /\ pc = "rhs"
  /\ Readonly(walk(rhs, ReferenceTypes), private_list, "statements")
  /\ statement' = [kind |-> "Assignment", part |-> "rhs", node |-> rhs]
  /\ nstatements' = nstatements + 1
  /\ UNCHANGED <<not_task, tree, private_list, shared_list, out_list, ref>>

(* Lines 1151-1162: the next statement of the walk is an IfBlock. *)
IfBlockCondition(condition) ==
  /\ pc = "statements"
  /\ nstatements < MaxStatements
  /\ Readonly(walk(condition, ReferenceTypes), private_list, "statements")
  /\ statement' = [kind |-> "IfBlock", part |-> "condition",
                   node |-> condition]
  /\ nstatements' = nstatements + 1
  /\ UNCHANGED <<not_task, tree, private_list, shared_list, out_list, ref>>

(* Lines 1163-1187: the next statement of the walk is a Loop. *)
NestedLoop(loop) ==
  /\ pc = "statements"
  /\ nstatements < MaxStatements
  /\ private_list' = Append(private_list, <<loop.name>>)
  /\ Readonly(loop_references(loop), private_list', "statements")
  /\ statement' = [kind |-> "Loop", part |-> "header", node |-> loop]
  /\ nstatements' = nstatements + 1
  /\ UNCHANGED <<not_task, tree, shared_list, out_list, ref>>

(* Lines 1189-1190: the walk is over, the five lists are returned. *)
Return ==
  /\ pc = "statements"
  /\ pc' = "returned"
  /\ UNCHANGED <<not_task, tree, lists, ref, statement, nstatements, raised>>

Next ==
  \/ Header
  \/ \E lhs \in LhsExpressions : AssignmentLhs(lhs)
  \/ \E rhs \in RhsExpressions : AssignmentRhs(rhs)
  \/ \E condition \in ReadExpressions : IfBlockCondition(condition)
  \/ \E loop \in NestedLoops : NestedLoop(loop)
  \/ Return

Spec == Init /\ [][Next]_vars

SpecHeader == InitHeader /\ [][Next]_vars

TypeOK ==
  /\ pc \in {"start", "statements", "rhs", "returned", "raised"}
  /\ raised \in {"", "GenerationError", "AssertionError", "UnboundLocalError"}
  /\ (pc = "raised") = (raised # "")
  /\ nstatements \in 0..MaxStatements

----------------------------------------------------------------------------
(* Classes and ancestors *)

(* The result of a search that found nothing. *)
None == "None"

(* The classes of the model that cls is an instance of: cls and its bases. *)
Bases(cls) ==
  CASE cls = "OMPParallelDoDirective" ->
         {"OMPParallelDoDirective", "OMPParallelDirective", "OMPDoDirective"}
    [] cls = "OMPSingleDirective" -> {"OMPSingleDirective", "OMPSerialDirective"}
    [] cls = "OMPMasterDirective" -> {"OMPMasterDirective", "OMPSerialDirective"}
    [] OTHER -> {cls}

(* isinstance(node, types), for a node of class cls *)
isinstance(cls, types) == Bases(cls) \cap types # {}

RECURSIVE ancestor(_, _, _)
(* Node.ancestor(my_type, excluding): chain holds the classes of the nodes   *)
(* from where the search starts up to the root; the nearest one that is an   *)
(* instance of types and of none of excluding, or None.  The Schedule nodes  *)
(* in between are left out of a chain: no search of the model asks for them. *)
ancestor(chain, types, excluding) ==
  IF chain = <<>> THEN None
  ELSE IF isinstance(Head(chain), types) /\ ~isinstance(Head(chain), excluding)
       THEN Head(chain)
  ELSE ancestor(Tail(chain), types, excluding)

----------------------------------------------------------------------------
(* validate_global_constraints *)

Schedule(c) == Node("Schedule", "", "", "", c)

Assignment(lhs, rhs) == Node("Assignment", "", "", "", <<lhs, rhs>>)

(* A Loop with its four children: start, stop, step and the loop body. *)
LoopOver(v, body) == Node("Loop", v, "", "", <<One, n, One, Schedule(body)>>)

(* Loop.loop_body *)
loop_body(loop) == loop.children[4]

(* The outcome of a call: it returned, or it raised exc with a message. *)
Ok == [exc |-> "", message |-> ""]

GenerationError(message) == [exc |-> "GenerationError", message |-> message]

(* children[0] of a list that has no element *)
IndexError == [exc |-> "IndexError", message |-> "list index out of range"]

(* A directive: its class, its collapse value (0 for None, the only value    *)
(* that is not positive the setter admits), the clauses that follow the      *)
(* Schedule in its children, and the children of that Schedule.              *)
Directive(t, c, cl, body) ==
  [type |-> t, collapse |-> c, clauses |-> cl, dir_body |-> body]

(* list.pop(k): the element, and the list without it *)
pop(list, k) ==
  [item |-> list[k],
   list |-> SubSeq(list, 1, k - 1) \o SubSeq(list, k + 1, Len(list))]

(* list[k]: the element, and the list as it was *)
getitem(list, k) == [item |-> list[k], list |-> list]

(* What a call leaves behind: its outcome and the children of dir_body. *)
Validated(outcome, body) == [outcome |-> outcome, dir_body |-> body]

(* OMPTaskwaitDirective.validate_global_constraints *)
OMPTaskwaitDirective_validate(d, chain) ==
  IF ancestor(chain, {"OMPParallelDirective"}, {"OMPParallelDoDirective"}) = None
  THEN Validated(GenerationError("OMPTaskwaitDirective must be inside an OMP parallel region but could not find an ancestor OMPParallelDirective node"), d.dir_body)
  ELSE Validated(Ok, d.dir_body)

(* The first check of the serial directive, with no class excluded. *)
OMPSerialDirective_parallel_any(chain) ==
  ancestor(chain, {"OMPParallelDirective"}, {}) # None

(* Lines 262-263: there is an OMPParallelDirective above that is no          *)
(* OMPParallelDoDirective.                                                   *)
OMPSerialDirective_parallel(chain) ==
  ancestor(chain, {"OMPParallelDirective"}, {"OMPParallelDoDirective"}) # None

(* OMPSerialDirective.validate_global_constraints *)
OMPSerialDirective_validate(d, chain) ==
  IF ~OMPSerialDirective_parallel(chain)
  THEN Validated(GenerationError("must be inside an OMP parallel region but could not find an ancestor OMPParallelDirective node"), d.dir_body)
  ELSE IF ancestor(chain, {"OMPSerialDirective"}, {}) # None
  THEN Validated(GenerationError("must not be inside another OpenMP serial region"), d.dir_body)
  ELSE Validated(Ok, d.dir_body)

(* The check of the parallel directive, were OMPParallelDoDirective left out. *)
OMPParallelDirective_nested_plain(chain) ==
  ancestor(chain, {"OMPParallelDirective"}, {"OMPParallelDoDirective"}) # None

(* Line 626: self.ancestor(OMPParallelDirective) is not None *)
OMPParallelDirective_nested(chain) ==
  ancestor(chain, {"OMPParallelDirective"}, {}) # None

(* OMPParallelDirective.validate_global_constraints *)
OMPParallelDirective_validate(d, chain) ==
  IF OMPParallelDirective_nested(chain)
  THEN Validated(GenerationError("Cannot nest OpenMP parallel regions."), d.dir_body)
  ELSE Validated(Ok, d.dir_body)

(* The search of the task directives, were it to look at the parent only. *)
serial_parent(chain) ==
  chain # <<>> /\ isinstance(Head(chain), {"OMPSerialDirective"})

(* Lines 667 and 1381: self.ancestor(OMPSerialDirective) *)
serial_ancestor(chain) == ancestor(chain, {"OMPSerialDirective"}, {}) # None

(* OMPTaskDirective.validate_global_constraints *)
OMPTaskDirective_validate(d, chain) ==
  IF ~serial_ancestor(chain)
  THEN Validated(GenerationError("OMPTaskDirective must be inside an OMP Serial region but could not find an ancestor node."), d.dir_body)
  ELSE Validated(Ok, d.dir_body)

(* OMPTaskloopDirective.validate_global_constraints *)
OMPTaskloopDirective_validate(d, chain) ==
  IF ~serial_ancestor(chain)
  THEN Validated(GenerationError("OMPTaskloopDirective must be inside an OMP Serial region but could not find an ancestor node"), d.dir_body)
  ELSE IF Len(d.clauses) = 2 /\ d.clauses[1] = "OMPNogroupClause"
  THEN Validated(GenerationError("OMPTaskloopDirective has two Nogroup clauses as children which is not allowed."), d.dir_body)
  ELSE Validated(Ok, d.dir_body)

(* _validate_single_loop without its second check *)
validate_single_child(body) ==
  IF Len(body) # 1
  THEN Validated(GenerationError("can only be applied to a single loop but this Node has that many children"), body)
  ELSE Validated(Ok, body)

(* OMPDoDirective._validate_single_loop *)
validate_single_loop(body) ==
  IF Len(body) # 1
  THEN Validated(GenerationError("can only be applied to a single loop but this Node has that many children"), body)
  ELSE LET first == getitem(body, 1)
       IN IF first.item.type # "Loop"
          THEN Validated(GenerationError("can only be applied to a loop but this Node has a child of that type"), first.list)
          ELSE Validated(Ok, first.list)

(* OMPParallelDoDirective.validate_global_constraints: that of the first     *)
(* base, OMPParallelDirective, which calls no other, then the single loop.   *)
OMPParallelDoDirective_validate(d, chain) ==
  LET super == OMPParallelDirective_validate(d, chain)
  IN IF super.outcome # Ok THEN super ELSE validate_single_loop(d.dir_body)

RECURSIVE collapse_loop(_, _, _)
(* Lines 1879-1890: the loop over range(collapse), from depth on; cursor is  *)
(* the statement at that depth.                                              *)
collapse_loop(cursor, depth, collapse) ==
  IF depth >= collapse THEN Ok
  ELSE IF cursor.type # "Loop"
  THEN GenerationError("OMPLoopDirective must have as many immediately nested loops as the collapse clause specifies")
  ELSE IF loop_body(cursor).children = <<>> THEN IndexError
  ELSE collapse_loop(loop_body(cursor).children[1], depth + 1, collapse)

(* OMPLoopDirective.validate_global_constraints *)
OMPLoopDirective_validate(d, chain) ==
  IF Len(d.dir_body) # 1
  THEN Validated(GenerationError("OMPLoopDirective must have exactly one child in its associated schedule"), d.dir_body)
  ELSE LET first == getitem(d.dir_body, 1)
       IN IF first.item.type # "Loop"
          THEN Validated(GenerationError("OMPLoopDirective must have a Loop as child of its associated schedule"), first.list)
          ELSE IF ancestor(chain, {"OMPTargetDirective", "OMPParallelDirective"}, {}) = None
          THEN Validated(GenerationError("OMPLoopDirective must be inside a OMPTargetDirective or a OMPParallelDirective"), first.list)
          ELSE Validated(collapse_loop(first.item, 0, d.collapse), first.list)

(* Inputs of validate_global_constraints *)

(* The longest chain of directives and loops above the directive. *)
MaxAncestors == 2

(* How many times validate_global_constraints is called on the tree. *)
MaxCalls == 2

AncestorClasses ==
  {"Loop", "OMPParallelDirective", "OMPParallelDoDirective",
   "OMPSingleDirective", "OMPMasterDirective", "OMPTargetDirective"}

(* The classes of the nodes above the directive, nearest first, up to the    *)
(* Routine at the root.                                                      *)
AncestorChains ==
  {c \o <<"Routine">> :
     c \in UNION {[1..k -> AncestorClasses] : k \in 0..MaxAncestors}}

(* A statement that is no loop. *)
statement_x == Assignment(Reference("x"), One)

(* The children of the Schedule of a directive: loop nests of up to three    *)
(* loops, with and without statements before, after and inside them.         *)
Bodies ==
  {<<>>,
   <<statement_x>>,
   <<LoopOver("i", <<>>)>>,
   <<LoopOver("i", <<statement_x>>)>>,
   <<LoopOver("i", <<statement_x>>), statement_x>>,
   <<LoopOver("i", <<LoopOver("j", <<>>)>>)>>,
   <<LoopOver("i", <<LoopOver("j", <<statement_x>>)>>)>>,
   <<LoopOver("i", <<LoopOver("j", <<statement_x>>), statement_x>>)>>,
   <<LoopOver("i", <<statement_x, LoopOver("j", <<statement_x>>)>>)>>,
   <<LoopOver("i", <<LoopOver("j", <<LoopOver("k", <<statement_x>>)>>)>>)>>,
   <<LoopOver("i", <<LoopOver("j", <<LoopOver("k", <<statement_x>>), statement_x>>)>>)>>}

(* collapse: None (0) or a positive integer *)
CollapseValues == {0, 1, 2, 3}

(* The clauses a taskloop directive may have after its Schedule. *)
TaskloopClauses ==
  {<<>>, <<"OMPGrainsizeClause">>, <<"OMPNogroupClause">>,
   <<"OMPGrainsizeClause", "OMPNogroupClause">>,
   <<"OMPNogroupClause", "OMPNogroupClause">>}

Directives ==
  {Directive("OMPTaskwaitDirective", 0, <<>>, <<>>)}
    \cup {Directive(t, 0, <<>>, <<statement_x>>) :
            t \in {"OMPSingleDirective", "OMPMasterDirective",
                   "OMPParallelDirective", "OMPTaskDirective"}}
    \cup {Directive("OMPTaskloopDirective", 0, cl, <<LoopOver("i", <<statement_x>>)>>) :
            cl \in TaskloopClauses}
    \cup {Directive("OMPParallelDoDirective", 0, <<>>, body) : body \in Bodies}
    \cup {Directive("OMPLoopDirective", c, <<>>, body) :
            c \in CollapseValues, body \in Bodies}

(* validate_global_constraints as a state machine *)

InitValidate ==
  /\ OnlyValidation
  /\ directive \in Directives
  /\ ancestors \in AncestorChains
  /\ outcomes = <<>>

(* What every call does: the outcome is recorded, and the directive is left  *)
(* with the children the call left in its Schedule.                          *)
Called(validated) ==
  /\ Len(outcomes) < MaxCalls
  /\ outcomes' = Append(outcomes, validated.outcome)
  /\ directive' = [directive EXCEPT !.dir_body = validated.dir_body]
  /\ UNCHANGED <<ancestors, not_validation>>

(* Each action is one call of the method the class of the directive          *)
(* resolves to.                                                              *)
ValidateTaskwait ==
  /\ directive.type = "OMPTaskwaitDirective"
  /\ Called(OMPTaskwaitDirective_validate(directive, ancestors))

ValidateSerial ==
  /\ isinstance(directive.type, {"OMPSerialDirective"})
  /\ Called(OMPSerialDirective_validate(directive, ancestors))

ValidateParallel ==
  /\ directive.type = "OMPParallelDirective"
  /\ Called(OMPParallelDirective_validate(directive, ancestors))

ValidateTask ==
  /\ directive.type = "OMPTaskDirective"
  /\ Called(OMPTaskDirective_validate(directive, ancestors))

ValidateTaskloop ==
  /\ directive.type = "OMPTaskloopDirective"
  /\ Called(OMPTaskloopDirective_validate(directive, ancestors))

ValidateParallelDo ==
  /\ directive.type = "OMPParallelDoDirective"
  /\ Called(OMPParallelDoDirective_validate(directive, ancestors))

ValidateLoop ==
  /\ directive.type = "OMPLoopDirective"
  /\ Called(OMPLoopDirective_validate(directive, ancestors))

NextValidate ==
  \/ ValidateTaskwait
  \/ ValidateSerial
  \/ ValidateParallel
  \/ ValidateTask
  \/ ValidateTaskloop
  \/ ValidateParallelDo
  \/ ValidateLoop

SpecValidate == InitValidate /\ [][NextValidate]_vars

----------------------------------------------------------------------------
(* _get_private_list *)

(* One access of a variable: READ or WRITE, whether it has indices, and the  *)
(* classes of the nodes from the accessing node up to, and without, the      *)
(* parallel directive.                                                       *)
Access(t, arr, node) == [access_type |-> t, is_array |-> arr, node |-> node]

(* A reference in a statement of the region body, outside every loop of the  *)
(* region. *)
InBody == <<"Reference">>

(* A reference in a statement of the body of a loop of the region. *)
InLoop == <<"Reference", "Loop">>

(* The loop itself, the node of the accesses to its variable. *)
AtLoop == <<"Loop">>

(* str.lower(), on the names of the model *)
lower(name) == IF name = "K" THEN "k" ELSE name

(* The names of the model in the order of str. *)
NameOrder == <<"a", "k">>

(* list(names) followed by list.sort() *)
sort(names) == SelectSeq(NameOrder, LAMBDA x : x \in names)

RECURSIVE local_vars_loop(_, _)
(* Lines 562-571: the names the kernels of the region report as local. *)
local_vars_loop(names, local) ==
  IF names = <<>> THEN [result |-> local, exc |-> ""]
  ELSE IF Head(names) = "" THEN [result |-> local, exc |-> "InternalError"]
  ELSE local_vars_loop(Tail(names), local \cup {lower(Head(names))})

(* The test of a signature without the one on the number of accesses. *)
private_signature_any(accesses, above) ==
  /\ ~accesses[1].is_array
  /\ accesses[1].access_type = "WRITE"
  /\ isinstance(ancestor(accesses[1].node \o above,
                         {"Loop", "InvokeSchedule"}, {}), {"Loop"})

(* Lines 576-610: whether the signature with these accesses is added to the  *)
(* result; above holds the classes from the parallel directive to the root.  *)
private_signature(accesses, above) ==
  /\ ~accesses[1].is_array
  /\ Len(accesses) # 1
  /\ accesses[1].access_type = "WRITE"
  /\ isinstance(ancestor(accesses[1].node \o above,
                         {"Loop", "InvokeSchedule"}, {}), {"Loop"})

(* Inputs of _get_private_list *)

(* The most accesses a variable has in the region. *)
MaxAccesses == 2

(* The parallel directive sits in the schedule of the invoke, or in a loop   *)
(* of it.                                                                    *)
RegionAncestors == {<<"InvokeSchedule">>, <<"Loop", "InvokeSchedule">>}

(* What local_vars() of the kernels of the region gives. *)
KernelLocals == {<<>>, <<"K">>, <<"a">>, <<"">>}

(* The accesses to a scalar. *)
ScalarAccesses ==
  {Access(t, FALSE, node) : t \in {"READ", "WRITE"}, node \in {InBody, InLoop}}
    \cup {Access("WRITE", FALSE, AtLoop)}

ScalarAccessLists ==
  UNION {[1..k -> ScalarAccesses] : k \in 1..MaxAccesses}

(* The accesses to an array: with indices, a(i), or as a whole, a. *)
ArrayAccessLists ==
  {<<Access("WRITE", TRUE, InLoop), Access("READ", TRUE, InLoop)>>,
   <<Access("READ", TRUE, InLoop)>>,
   <<Access("WRITE", FALSE, InLoop)>>,
   <<Access("WRITE", FALSE, InLoop), Access("READ", TRUE, InLoop)>>,
   <<Access("WRITE", FALSE, InBody), Access("READ", TRUE, InLoop)>>,
   <<Access("READ", FALSE, InLoop), Access("WRITE", TRUE, InLoop)>>}

(* _get_private_list as a state machine *)

InitPrivate ==
  /\ OnlyClassification
  /\ region_ancestors \in RegionAncestors
  /\ kernel_locals \in KernelLocals
  /\ var_accesses \in {[a |-> x, k |-> y] :
                         x \in ArrayAccessLists, y \in ScalarAccessLists}
  /\ result = {}
  /\ signatures = <<>>
  /\ list_result = <<>>
  /\ stage = "kernels"

(* Lines 562-574: the local variables of the kernels, then the accesses. *)
LocalVars ==
  /\ stage = "kernels"
  /\ LET r == local_vars_loop(kernel_locals, {})
     IN /\ result' = r.result
        /\ stage' = IF r.exc = "" THEN "signatures" ELSE "raised"
  /\ signatures' = sort(DOMAIN var_accesses)
  /\ UNCHANGED <<region_ancestors, kernel_locals, var_accesses, list_result,
                 not_classification>>

(* Lines 575-610: one turn of the loop over all_signatures. *)
Signature ==
  /\ stage = "signatures"
  /\ signatures # <<>>
  /\ result' = IF private_signature(var_accesses[Head(signatures)],
                                    <<"OMPParallelDirective">> \o region_ancestors)
               THEN result \cup {lower(Head(signatures))}
               ELSE result
  /\ signatures' = Tail(signatures)
  /\ UNCHANGED <<region_ancestors, kernel_locals, var_accesses, list_result,
                 stage, not_classification>>

(* Lines 612-616: the sorted list is returned. *)
ReturnPrivate ==
  /\ stage = "signatures"
  /\ signatures = <<>>
  /\ list_result' = sort(result)
  /\ stage' = "returned"
  /\ UNCHANGED <<region_ancestors, kernel_locals, var_accesses, result,
                 signatures, not_classification>>

NextPrivate ==
  \/ LocalVars
  \/ Signature
  \/ ReturnPrivate

SpecPrivate == InitPrivate /\ [][NextPrivate]_vars

----------------------------------------------------------------------------
(* gen_code *)

(* What a call of gen_code leaves behind: what it added to parent, in order, *)
(* and its outcome.                                                          *)
Generated(items, outcome) == [added |-> items, outcome |-> outcome]

(* name in names, for the name at position p and the names before it *)
used_before(names, p) == \E q \in 1..(p - 1) : names[q] = names[p]

(* zero_reduction_variables(calls, parent): the variables are set to zero. *)
zero_reduction_variables(calls) ==
  IF calls = <<>> THEN <<>> ELSE <<"zero_reduction_variables">>

(* for child in children: child.gen_code(parent) *)
children_gen_code(body) == IF body = <<>> THEN <<>> ELSE <<"children">>

(* OMPDoDirective.validate_global_constraints *)
OMPDoDirective_validate(d, chain) ==
  IF ancestor(chain, {"OMPParallelDirective"}, {"OMPParallelDoDirective"}) = None
  THEN Validated(GenerationError("OMPDoDirective must be inside an OMP parallel region but could not find an ancestor OMPParallelDirective node"), d.dir_body)
  ELSE validate_single_loop(d.dir_body)

(* The method validate_global_constraints resolves to on the directive. *)
validate_global_constraints(d, chain) ==
  CASE d.type = "OMPTaskwaitDirective" -> OMPTaskwaitDirective_validate(d, chain)
    [] isinstance(d.type, {"OMPSerialDirective"}) -> OMPSerialDirective_validate(d, chain)
    [] d.type = "OMPParallelDirective" -> OMPParallelDirective_validate(d, chain)
    [] d.type = "OMPTaskDirective" -> OMPTaskDirective_validate(d, chain)
    [] d.type = "OMPTaskloopDirective" -> OMPTaskloopDirective_validate(d, chain)
    [] d.type = "OMPDoDirective" -> OMPDoDirective_validate(d, chain)
    [] d.type = "OMPParallelDoDirective" -> OMPParallelDoDirective_validate(d, chain)

(* A gen_code whose first statement is the call of                           *)
(* validate_global_constraints: the items follow if it returns.              *)
validate_then_add(d, chain, items) ==
  LET v == validate_global_constraints(d, chain).outcome
  IN IF v # Ok THEN Generated(<<>>, v) ELSE Generated(items, Ok)

(* OMPTaskwaitDirective.gen_code *)
OMPTaskwaitDirective_gen_code(d, chain) ==
  validate_then_add(d, chain, <<"DirectiveGen begin taskwait">>)

(* OMPSingleDirective.gen_code *)
OMPSingleDirective_gen_code(d, chain) ==
  validate_then_add(d, chain, <<"DirectiveGen begin single">> \o children_gen_code(d.dir_body) \o <<"DirectiveGen end single">>)

(* OMPMasterDirective.gen_code *)
OMPMasterDirective_gen_code(d, chain) ==
  validate_then_add(d, chain, <<"DirectiveGen begin master">> \o children_gen_code(d.dir_body) \o <<"DirectiveGen end master">>)

(* Lines 449-457: with reproducible reductions, the thread index is declared *)
(* in parent.                                                                *)
thread_index(reprod) == IF reprod # <<>> THEN <<"DeclGen thread_idx">> ELSE <<>>

(* Lines 498-505: the children of the parallel region, all of one type. *)
parallel_children(body, items) ==
  IF body = <<>> THEN Generated(items, IndexError)
  ELSE IF \E p \in 1..Len(body) : body[p].type # body[1].type
  THEN Generated(items \o <<"children">>, [exc |-> "NotImplementedError", message |-> "Cannot correctly generate code for an OpenMP parallel region containing children of different types"])
  ELSE Generated(items \o <<"children">>, Ok)

(* OMPParallelDirective.gen_code *)
OMPParallelDirective_gen_code(d, chain, r) ==
  LET decl == thread_index(r.reprod)
      v == OMPParallelDirective_validate(d, chain).outcome
      begin == decl \o zero_reduction_variables(r.calls)
                 \o <<"DirectiveGen begin parallel">>
                 \o (IF r.reprod # <<>>
                     THEN <<"UseGen omp_lib", "AssignGen thread_idx">>
                     ELSE <<>>)
      body == parallel_children(d.dir_body, begin)
  IN IF v # Ok THEN Generated(decl, v)
     ELSE IF \E p \in 1..Len(r.calls) : used_before(r.calls, p)
     THEN Generated(decl, GenerationError("Reduction variables can only be used once in an invoke."))
     ELSE IF body.outcome # Ok THEN body
     ELSE Generated(body.added \o <<"DirectiveGen end parallel">>
                      \o (IF r.reprod # <<>> THEN <<"CommentGen", "reduction_sum_loop">> ELSE <<>>),
                    Ok)

(* OMPTaskDirective.gen_code: r.clauses is the exception compute_clauses     *)
(* raises on the task body, "" when it returns the lists.                    *)
OMPTaskDirective_gen_code(d, chain, r) ==
  LET v == OMPTaskDirective_validate(d, chain).outcome
  IN IF v # Ok THEN Generated(<<>>, v)
     ELSE IF r.clauses # "" THEN Generated(<<>>, [exc |-> r.clauses, message |-> "compute_clauses"])
     ELSE Generated(<<"DirectiveGen begin task">> \o children_gen_code(d.dir_body) \o <<"DirectiveGen end task">>, Ok)

(* OMPTaskloopDirective.gen_code *)
OMPTaskloopDirective_gen_code(d, chain) ==
  validate_then_add(d, chain, <<"DirectiveGen begin taskloop">> \o children_gen_code(d.dir_body) \o <<"DirectiveGen end taskloop">>)

(* OMPDoDirective.gen_code *)
OMPDoDirective_gen_code(d, chain) ==
  validate_then_add(d, chain, <<"DirectiveGen begin do">> \o children_gen_code(d.dir_body) \o <<"DirectiveGen end do">>)

(* OMPParallelDoDirective.gen_code *)
OMPParallelDoDirective_gen_code(d, chain, r) ==
  validate_then_add(d, chain, zero_reduction_variables(r.calls) \o <<"DirectiveGen begin parallel do">> \o children_gen_code(d.dir_body) \o <<"DirectiveGen end parallel do">>)

(* Inputs of gen_code *)

(* The reductions of the kernels of a region: the variables of those that    *)
(* are reproducible, and of all.                                             *)
Reductions ==
  {r \in [reprod : {<<>>, <<"s">>}, calls : {<<>>, <<"s">>, <<"s", "s">>},
          clauses : {""}] :
     r.reprod = <<>> \/ r.calls # <<>>}

(* The outcomes of compute_clauses on the body of a task. *)
TaskBodies ==
  {[reprod |-> <<>>, calls |-> <<>>, clauses |-> e] :
     e \in {"", "GenerationError", "UnboundLocalError"}}

(* The directives of this file that have a gen_code. *)
GenDirectives ==
  {d \in Directives : d.type # "OMPLoopDirective"}
    \cup {Directive("OMPDoDirective", 0, <<>>, body) : body \in Bodies}

(* What gen_code reads of the region of a directive besides the tree. *)
Regions(d) ==
  IF d.type \in {"OMPParallelDirective", "OMPParallelDoDirective"} THEN Reductions
  ELSE IF d.type = "OMPTaskDirective" THEN TaskBodies
  ELSE {NoRegion}

(* gen_code as a state machine *)

InitGen ==
  /\ OnlyGeneration
  /\ directive \in GenDirectives
  /\ ancestors \in AncestorChains
  /\ region \in Regions(directive)
  /\ outcomes = <<>>
  /\ added = <<>>

(* What every call does: parent has the items, the outcome is recorded. *)
Generate(generated) ==
  /\ outcomes = <<>>
  /\ added' = generated.added
  /\ outcomes' = <<generated.outcome>>
  /\ UNCHANGED <<directive, ancestors, region, not_generation>>

GenTaskwait ==
  /\ directive.type = "OMPTaskwaitDirective"
  /\ Generate(OMPTaskwaitDirective_gen_code(directive, ancestors))

GenSingle ==
  /\ directive.type = "OMPSingleDirective"
  /\ Generate(OMPSingleDirective_gen_code(directive, ancestors))

GenMaster ==
  /\ directive.type = "OMPMasterDirective"
  /\ Generate(OMPMasterDirective_gen_code(directive, ancestors))

GenParallel ==
  /\ directive.type = "OMPParallelDirective"
  /\ Generate(OMPParallelDirective_gen_code(directive, ancestors, region))

GenTask ==
  /\ directive.type = "OMPTaskDirective"
  /\ Generate(OMPTaskDirective_gen_code(directive, ancestors, region))

GenTaskloop ==
  /\ directive.type = "OMPTaskloopDirective"
  /\ Generate(OMPTaskloopDirective_gen_code(directive, ancestors))

GenDo ==
  /\ directive.type = "OMPDoDirective"
  /\ Generate(OMPDoDirective_gen_code(directive, ancestors))

GenParallelDo ==
  /\ directive.type = "OMPParallelDoDirective"
  /\ Generate(OMPParallelDoDirective_gen_code(directive, ancestors, region))

NextGen ==
  \/ GenTaskwait
  \/ GenSingle
  \/ GenMaster
  \/ GenParallel
  \/ GenTask
  \/ GenTaskloop
  \/ GenDo
  \/ GenParallelDo

SpecGen == InitGen /\ [][NextGen]_vars

----------------------------------------------------------------------------
(* ArrayMixin *)

(* A Literal with its datatype.intrinsic. *)
LiteralOf(v, t) ==
  [type |-> "Literal", name |-> "", value |-> v, operator |-> "",
   children |-> <<>>, datatype |-> t]

Range(start, stop, step) == Node("Range", "", "", "", <<start, stop, step>>)

(* A member that has a member, b in a%b%c. *)
StructureMember(nm, member) == Node("StructureMember", nm, "", "", <<member>>)

(* A member with indices, c in a%b%c(1). *)
ArrayMember(nm, idx) == Node("ArrayMember", nm, "", "", idx)

(* A reference to a structure whose member may have members: a%b%c. *)
StructureOf(nm, member) == Node("StructureReference", nm, "", "", <<member>>)

(* The same with indices on the structure: a(3)%b%c. *)
ArrayOfStructuresOf(nm, member, idx) ==
  Node("ArrayOfStructuresReference", nm, "", "", <<member>> \o idx)

(* The node has a member as its first child. *)
HasMember(node) ==
  node.type \in {"StructureReference", "ArrayOfStructuresReference",
                 "StructureMember"}

(* The index expressions on one component of a structure access. *)
own_indices(node) ==
  CASE node.type = "ArrayOfStructuresReference" -> Tail(node.children)
    [] node.type \in {"ArrayReference", "ArrayMember"} -> node.children
    [] OTHER -> <<>>

RECURSIVE signature(_)
(* get_signature_and_indices()[0]: the names of the components. *)
signature(node) ==
  <<node.name>> \o (IF HasMember(node) THEN signature(node.children[1]) ELSE <<>>)

RECURSIVE component_indices(_)
(* get_signature_and_indices()[1]: the indices of each component. *)
component_indices(node) ==
  <<own_indices(node)>>
    \o (IF HasMember(node) THEN component_indices(node.children[1]) ELSE <<>>)

(* sequence[:k] *)
slice(sequence, k) ==
  SubSeq(sequence, 1, IF k < Len(sequence) THEN k ELSE Len(sequence))

(* The characters of a lexeme of more than one character. *)
characters(lexeme) ==
  CASE lexeme = "12" -> <<"1", "2">>
    [] lexeme = "23" -> <<"2", "3">>
    [] OTHER -> <<lexeme>>

RECURSIVE text(_)
(* A str as the sequence of its characters. *)
text(lexemes) ==
  IF lexemes = <<>> THEN <<>>
  ELSE characters(Head(lexemes)) \o text(Tail(lexemes))

RECURSIVE joined(_)
(* "".join(fwriter(idx) for idx in indices) *)
joined(idx) ==
  IF idx = <<>> THEN <<>> ELSE text(writer(Head(idx))) \o joined(Tail(idx))

RECURSIVE member_at(_, _)
(* The node depth members below node. *)
member_at(node, depth) ==
  IF depth = 0 THEN node ELSE member_at(node.children[1], depth - 1)

(* self: the array access that is depth members below the node root. *)
Self(root, depth) == [root |-> root, depth |-> depth]

(* self.indices *)
self_indices(self) == own_indices(member_at(self.root, self.depth))

RECURSIVE parent_loop(_, _, _)
(* Lines 221-225: the climb from self to its parent Reference; current is    *)
(* level members below the root.  Gives the depth counted and whether the    *)
(* climb ended under a Reference.                                            *)
parent_loop(root, level, depth) ==
  IF level = 0 THEN [depth |-> depth, parent_ref |-> FALSE]
  ELSE IF level = 1
  THEN IF IsReference(root) THEN [depth |-> depth, parent_ref |-> TRUE]
       ELSE parent_loop(root, 0, depth + 1)
  ELSE parent_loop(root, level - 1, depth + 1)

(* The comparison of the indices, were the innermost ones compared too. *)
indices_match_all(self_idx, node_idx, depth) ==
  \A p \in 1..Len(slice(self_idx, depth + 1)) :
    p <= Len(slice(node_idx, depth + 1)) =>
      joined(self_idx[p]) = joined(node_idx[p])

(* Lines 241-245: zip(self_indices[:depth], node_indices[:depth]) *)
indices_match(self_idx, node_idx, depth) ==
  \A p \in 1..Len(slice(self_idx, depth)) :
    p <= Len(slice(node_idx, depth)) =>
      joined(self_idx[p]) = joined(node_idx[p])

(* ArrayMixin._matching_access *)
matching_access(self, node) ==
  IF self.depth = 0 /\ IsReference(self.root)
  THEN IsReference(node) /\ self.root.name = node.name
  ELSE LET climb == parent_loop(self.root, self.depth, 1)
       IN /\ climb.parent_ref
          /\ slice(signature(self.root), climb.depth + 1)
               = slice(signature(node), climb.depth + 1)
          /\ indices_match(component_indices(self.root),
                           component_indices(node), climb.depth)

(* str(k) *)
str(k) == <<"0", "1", "2", "3", "4">>[k + 1]

(* _validate_index: the exception it raises, "" for none. *)
validate_index(self, index) ==
  IF index > Len(self_indices(self)) - 1 THEN "ValueError" ELSE ""

(* Lines 139-151 and 181-193: bound is operator(A, index + 1) with A         *)
(* matching self.                                                            *)
is_bound(self, index, bound, operator) ==
  /\ bound.type = "BinaryOperation"
  /\ bound.operator = operator
  /\ IsReference(bound.children[1])
  /\ matching_access(self, bound.children[1])
  /\ bound.children[2].type = "Literal"
  /\ bound.children[2].datatype = "INTEGER"
  /\ bound.children[2].value = str(index + 1)

(* ArrayMixin.is_lower_bound, for a valid index *)
is_lower_bound(self, index) ==
  LET array_dimension == self_indices(self)[index + 1]
  IN /\ array_dimension.type = "Range"
     /\ is_bound(self, index, array_dimension.children[1], "LBOUND")

(* ArrayMixin.is_upper_bound, for a valid index *)
is_upper_bound(self, index) ==
  LET array_dimension == self_indices(self)[index + 1]
  IN /\ array_dimension.type = "Range"
     /\ is_bound(self, index, array_dimension.children[2], "UBOUND")

(* The test of the step without that of its value. *)
unit_step_any(step) == step.type = "Literal" /\ step.datatype = "INTEGER"

(* Lines 268-271: the step is the integer literal 1. *)
unit_step(step) ==
  /\ step.type = "Literal"
  /\ step.datatype = "INTEGER"
  /\ <<step.value>> = <<"1">>

(* ArrayMixin.is_full_range, for a valid index *)
is_full_range(self, index) ==
  LET array_dimension == self_indices(self)[index + 1]
  IN /\ array_dimension.type = "Range"
     /\ is_lower_bound(self, index)
     /\ is_upper_bound(self, index)
     /\ unit_step(array_dimension.children[3])

(* Inputs of the ArrayMixin methods *)

IntegerLiteral(v) == LiteralOf(v, "INTEGER")

LBOUND(array, dim) == BinaryOperation("LBOUND", array, dim)

UBOUND(array, dim) == BinaryOperation("UBOUND", array, dim)

(* A member with a member and indices, b in a%b(1)%c. *)
ArrayOfStructuresMember(nm, member, idx) ==
  Node("ArrayOfStructuresMember", nm, "", "", <<member>> \o idx)

(* The expressions tried as the start or stop of a range of an access to    *)
(* array: inner is the bound's own operator, outer the other one.           *)
BoundExpressions(array, inner, outer) ==
  {BinaryOperation(inner, array, IntegerLiteral("1")),
   BinaryOperation(inner, array, IntegerLiteral("2")),
   BinaryOperation(inner, Reference("b"), IntegerLiteral("1")),
   BinaryOperation(inner, array, LiteralOf("1", "REAL")),
   BinaryOperation(inner, array, Reference("n")),
   BinaryOperation(outer, array, IntegerLiteral("1")),
   IntegerLiteral("1")}

Steps == {IntegerLiteral("1"), IntegerLiteral("2"), LiteralOf("1", "REAL"), Reference("n")}

Ranges(array) ==
  {Range(lo, hi, st) : lo \in BoundExpressions(array, "LBOUND", "UBOUND"),
                       hi \in BoundExpressions(array, "UBOUND", "LBOUND"),
                       st \in Steps}

(* Greatest number of dimensions of an array access. *)
MaxDims == 2

(* The index lists of the accesses to array, of up to MaxDims dimensions,   *)
(* a range being the last one.                                               *)
IndexLists(array) ==
  {<<Reference("i")>>}
    \cup UNION {{SubSeq(<<Reference("i"), Reference("j"), Reference("k")>>,
                        1, dims - 1) \o <<r>> : r \in Ranges(array)}
                : dims \in 1..MaxDims}

(* a(...) for every index list. *)
SymbolAccesses ==
  {Self(ArrayReference("a", idx), 0) : idx \in IndexLists(Reference("a"))}

(* The structure accesses a<idx>%b%<last>. *)
Chain(nm, idx, middle, last) ==
  IF idx = <<>> THEN StructureOf(nm, StructureMember(middle, last))
  ELSE ArrayOfStructuresOf(nm, StructureMember(middle, last), idx)

(* c(:) within base, itself an access to c with no index. *)
FullRange(base) ==
  Range(LBOUND(base, IntegerLiteral("1")), UBOUND(base, IntegerLiteral("1")), IntegerLiteral("1"))

(* The accesses given to _matching_access and used as the argument of the   *)
(* bounds of a member access.                                                *)
StructureAccesses ==
  {Chain("a", <<IntegerLiteral("3")>>, "b", Member("c")),
   Chain("a", <<IntegerLiteral("2")>>, "b", Member("c")),
   Chain("a", <<IntegerLiteral("3")>>, "b", ArrayMember("c", <<IntegerLiteral("1")>>)),
   Chain("a", <<IntegerLiteral("2")>>, "b", ArrayMember("c", <<IntegerLiteral("1")>>)),
   Chain("a", <<IntegerLiteral("2")>>, "b2",
         ArrayMember("c",
           <<FullRange(Chain("a", <<IntegerLiteral("2")>>, "b2", Member("c")))>>)),
   Chain("a", <<IntegerLiteral("3")>>, "b2", Member("c")),
   Chain("a", <<IntegerLiteral("1"), IntegerLiteral("23")>>, "b", Member("c")),
   Chain("a", <<IntegerLiteral("12"), IntegerLiteral("3")>>, "b", Member("c")),
   Chain("a", <<>>, "b", Member("c")),
   Chain("a", <<IntegerLiteral("3")>>, "b", StructureMember("c", Member("d"))),
   Chain("b", <<IntegerLiteral("3")>>, "b", Member("c")),
   ArrayOfStructuresOf("a",
     ArrayOfStructuresMember("b", Member("c"), <<IntegerLiteral("1")>>), <<IntegerLiteral("3")>>),
   ArrayOfStructuresOf("a", Member("b"), <<IntegerLiteral("3")>>),
   Reference("a"),
   ArrayReference("a", <<IntegerLiteral("3")>>)}

(* The member accesses whose range has its bounds on the access arg: c(:)   *)
(* at the end of a structure access, b(:) under a structure, a member with   *)
(* no parent, and a(:)%b.                                                    *)
MemberSelves(arg) ==
  {Self(Chain("a", idx, "b", ArrayMember("c", <<FullRange(arg)>>)), 2) :
     idx \in {<<IntegerLiteral("3")>>,
              <<IntegerLiteral("1"), IntegerLiteral("23")>>, <<>>}}
    \cup {Self(StructureOf("a", ArrayMember("b", <<FullRange(arg)>>)), 1),
          Self(ArrayMember("c", <<FullRange(arg)>>), 0),
          Self(ArrayOfStructuresOf("a", Member("b"), <<FullRange(arg)>>), 0)}

MemberAccesses == UNION {MemberSelves(arg) : arg \in StructureAccesses}

(* The accesses on which _matching_access is called. *)
MatchingSelves ==
  MemberSelves(Chain("a", <<IntegerLiteral("3")>>, "b", Member("c")))
    \cup {Self(ArrayReference("a", <<Reference("i")>>), 0)}

NoNode == Unbound

InitArray ==
  /\ \/ /\ access \in SymbolAccesses \cup MemberAccesses
        /\ dimension \in 0..MaxDims
        /\ other = NoNode
     \/ /\ access \in MatchingSelves
        /\ dimension = 0
        /\ other \in StructureAccesses
  /\ method = ""
  /\ answer = ""
  /\ OnlyArray

(* A call of a method of the access that validates the index first. *)
Answered(name, value) ==
  /\ method' = name
  /\ answer' = (IF validate_index(access, dimension) # ""
                THEN validate_index(access, dimension)
                ELSE IF value THEN "True" ELSE "False")
  /\ UNCHANGED <<access, dimension, other>>
  /\ UNCHANGED not_array

IsLowerBound ==
  /\ method = ""
  /\ other = NoNode
  /\ Answered("is_lower_bound",
              validate_index(access, dimension) = ""
                /\ is_lower_bound(access, dimension))

IsUpperBound ==
  /\ method = ""
  /\ other = NoNode
  /\ Answered("is_upper_bound",
              validate_index(access, dimension) = ""
                /\ is_upper_bound(access, dimension))

IsFullRange ==
  /\ method = ""
  /\ other = NoNode
  /\ Answered("is_full_range",
              validate_index(access, dimension) = ""
                /\ is_full_range(access, dimension))

MatchingAccess ==
  /\ method = ""
  /\ other # NoNode
  /\ method' = "_matching_access"
  /\ answer' = (IF matching_access(access, other) THEN "True" ELSE "False")
  /\ UNCHANGED <<access, dimension, other>>
  /\ UNCHANGED not_array

NextArray == IsLowerBound \/ IsUpperBound \/ IsFullRange \/ MatchingAccess

SpecArray == InitArray /\ [][NextArray]_vars

----------------------------------------------------------------------------
(* ReferenceEvaluation *)

(* The exceptions an evaluation ends with; any other result is the value it *)
(* returns: a BooleanValue, or the Python value True, False, None or an int. *)
Exceptions ==
  {"RefEvalError", "TransformationError", "Exception", "AssertionError",
   "AttributeError"}

(* The tables of a ReferenceEvaluation, built by __init__ from a namelist   *)
(* file and the symbol table of a module.  Nothing fills _dynamic_table.     *)
namelist_boolean_table == [ln_t |-> "True"]

parameter_boolean_table == [lp_f |-> "False"]

parameter_int_table == [np_a |-> "1", np_b |-> "2"]

dynamic_table == <<>>

(* _merge_dictionaries, the namelist entries first. *)
merge_dictionaries(namelist, parameter) ==
  [k \in DOMAIN namelist \cup DOMAIN parameter |->
     IF k \in DOMAIN parameter THEN parameter[k] ELSE namelist[k]]

known_boolean_table ==
  merge_dictionaries(namelist_boolean_table, parameter_boolean_table)

known_int_table == merge_dictionaries(<<>>, parameter_int_table)

(* table.get(name) *)
get(table, name) == IF name \in DOMAIN table THEN table[name] ELSE "None"

(* _get_boolean_value_from_literal *)
get_boolean_value_from_literal(psyir_node, error) ==
  IF psyir_node.datatype = "BOOLEAN"
  THEN IF psyir_node.value = "true" THEN "True"
       ELSE IF psyir_node.value = "false" THEN "False" ELSE "AssertionError"
  ELSE error

(* is_not != value, as a BooleanValue *)
xor(is_not, value) ==
  IF is_not # (value = "True") THEN "ALWAYS_TRUE" ELSE "ALWAYS_FALSE"

(* _evaluate_literal *)
evaluate_literal(psyir_node, is_not, error) ==
  LET value == get_boolean_value_from_literal(psyir_node, error)
  IN IF value \in Exceptions THEN value ELSE xor(is_not, value)

_not(boolean1) ==
  IF boolean1 \in {"DYNAMIC", "UNKNOWN"} THEN boolean1
  ELSE IF boolean1 = "ALWAYS_TRUE" THEN "ALWAYS_FALSE"
  ELSE IF boolean1 = "ALWAYS_FALSE" THEN "ALWAYS_TRUE"
  ELSE "AssertionError"

_from_bool_to_boolean(expr) == IF expr THEN "ALWAYS_TRUE" ELSE "ALWAYS_TRUE"

_and(boolean1, boolean2) ==
  IF boolean1 \in {"DYNAMIC", "UNKNOWN"} THEN boolean1
  ELSE IF boolean2 \in {"DYNAMIC", "UNKNOWN"} THEN boolean2
  ELSE IF boolean1 = "ALWAYS_TRUE" THEN boolean2
  ELSE boolean1

_or(boolean1, boolean2) ==
  IF boolean1 \in {"DYNAMIC", "UNKNOWN"} THEN boolean1
  ELSE IF boolean2 \in {"DYNAMIC", "UNKNOWN"} THEN boolean2
  ELSE IF boolean1 = "ALWAYS_TRUE" THEN boolean1
  ELSE boolean2

(* _evaluate_equality of two references, given the two tables. *)
evaluate_equality(psyir_ref1, psyir_ref2, booleans, ints) ==
  LET boolvalue1 == get(booleans, psyir_ref1.name)
      intvalue1 == get(ints, psyir_ref1.name)
      boolvalue2 == get(booleans, psyir_ref2.name)
      intvalue2 == get(ints, psyir_ref2.name)
  IN IF boolvalue1 # "None" /\ boolvalue2 # "None"
     THEN _from_bool_to_boolean(boolvalue1 = boolvalue2)
     ELSE IF intvalue1 # "None" /\ intvalue2 # "None"
     THEN _from_bool_to_boolean(intvalue1 = intvalue2)
     ELSE "UNKNOWN"

(* _evaluate_nonequality: its body is pass. *)
evaluate_nonequality(psyir_ref1, psyir_ref2) == "None"

(* Lines 259-270: the operator applied to the values of the two operands;   *)
(* equality is the result of _evaluate_equality.                             *)
binary_result(operator, boolean0, boolean1, equality, error) ==
  CASE operator = "AND" -> _not(_and(boolean0, boolean1))
    [] operator = "OR" -> _not(_or(boolean0, boolean1))
    [] operator = "EQ" -> equality
    [] operator = "NE" -> "None"
    [] OTHER -> error

(* _evaluate_reference_in_nml_or_parameter *)
evaluate_reference_in_nml_or_parameter(psyir_node) ==
  IF psyir_node.name \in DOMAIN namelist_boolean_table
  THEN namelist_boolean_table[psyir_node.name]
  ELSE IF psyir_node.name \in DOMAIN parameter_boolean_table
  THEN parameter_boolean_table[psyir_node.name]
  ELSE "RefEvalError"

(* ReferenceEvaluation._evaluate_single_reference *)
evaluate_single_reference(psyir_node, is_not) ==
  LET value == evaluate_reference_in_nml_or_parameter(psyir_node)
  IN IF value = "RefEvalError"
     THEN IF psyir_node.name \in DOMAIN dynamic_table THEN "DYNAMIC"
          ELSE "UNKNOWN"
     ELSE xor(is_not, value)

RECURSIVE evaluate_as_boolean(_, _)
(* ReferenceEvaluation.evaluate_as_boolean, with _evaluate_unary_operation  *)
(* and _evaluate_binary_operation.                                           *)
evaluate_as_boolean(psyir_node, is_not) ==
  CASE psyir_node.type = "Literal" ->
         evaluate_literal(psyir_node, is_not, "RefEvalError")
    [] IsReference(psyir_node) -> evaluate_single_reference(psyir_node, is_not)
    [] psyir_node.type = "UnaryOperation" ->
         IF psyir_node.operator # "NOT" THEN "AssertionError"
         ELSE evaluate_as_boolean(psyir_node.children[1], ~is_not)
    [] psyir_node.type = "BinaryOperation" ->
         LET boolean0 == evaluate_as_boolean(psyir_node.children[1], is_not)
             boolean1 == evaluate_as_boolean(psyir_node.children[2], is_not)
         IN IF boolean0 \in Exceptions THEN boolean0
            ELSE IF boolean1 \in Exceptions THEN boolean1
            ELSE binary_result(psyir_node.operator, boolean0, boolean1,
                               evaluate_equality(psyir_node.children[1],
                                                 psyir_node.children[2],
                                                 known_boolean_table,
                                                 known_int_table),
                               "RefEvalError")
    [] OTHER -> "RefEvalError"

(* Inputs of the evaluation *)

BooleanLiteral(v) == LiteralOf(v, "BOOLEAN")

(* The references: to namelist and parameter booleans, to parameter         *)
(* integers, and to a variable that is in no table.                          *)
References ==
  {Reference(nm) : nm \in {"ln_t", "lp_f", "np_a", "np_b", "i"}}

(* The expressions with no operator. *)
Operands == {BooleanLiteral("true"), BooleanLiteral("false")} \cup References

(* Greatest number of operators of an expression. *)
MaxOperators == 2

RECURSIVE Expressions(_)
(* The expressions of exactly k operators: .NOT., .AND., .OR. on any        *)
(* operands, ==, /= and < on a reference and a reference or an integer       *)
(* literal.                                                                  *)
Expressions(k) ==
  IF k = 0 THEN Operands
  ELSE {UnaryOperation("NOT", e) : e \in Expressions(k - 1)}
    \cup UNION {{BinaryOperation(o, l, r) : o \in {"AND", "OR"},
                   l \in Expressions(p), r \in Expressions(k - 1 - p)}
                  : p \in 0..(k - 1)}
    \cup (IF k = 1
          THEN {BinaryOperation(o, l, r) : o \in {"EQ", "NE", "LT"},
                  l \in References,
                  r \in References \cup {IntegerLiteral("5")}}
          ELSE {})

InitEval ==
  /\ expression \in UNION {Expressions(k) : k \in 0..MaxOperators}
  /\ evaluation = ""
  /\ OnlyEvaluation

EvaluateAsBoolean ==
  /\ evaluation = ""
  /\ evaluation' = evaluate_as_boolean(expression, FALSE)
  /\ UNCHANGED expression
  /\ UNCHANGED not_evaluation

NextEval == EvaluateAsBoolean

SpecEval == InitEval /\ [][NextEval]_vars

----------------------------------------------------------------------------
(* RemoveIfBlockTrans *)

(* The tables of a RemoveIfBlockTrans, read by __init__ from a json file.   *)
known_reference_bool == [ln_t |-> "True"]

known_reference_int == [np_a |-> "1"]

(* An if-block of a schedule; which is the place it had in the schedule it  *)
(* was read into, that tells it from an equal one; no else_body is <<>>.     *)
IfBlock(which, condition, if_body, else_body) ==
  [type |-> "IfBlock", which |-> which, condition |-> condition,
   if_body |-> if_body, else_body |-> else_body]

(* _evaluate_reference_as_known_bool_or_int *)
evaluate_reference_as_known_bool_or_int(psyir_node) ==
  IF psyir_node.name \in DOMAIN known_reference_bool
  THEN known_reference_bool[psyir_node.name]
  ELSE IF psyir_node.name \in DOMAIN known_reference_int
  THEN known_reference_int[psyir_node.name]
  ELSE "TransformationError"

(* RemoveIfBlockTrans._evaluate_single_reference: a bool is an int too, so  *)
(* every value found is returned as it is.                                   *)
single_reference(psyir_node, is_not) ==
  LET value == evaluate_reference_as_known_bool_or_int(psyir_node)
  IN IF value = "TransformationError" THEN "DYNAMIC" ELSE value

RECURSIVE rec_evaluate(_, _)
(* RemoveIfBlockTrans.rec_evaluate, with _evaluate_unary_operation and      *)
(* _evaluate_binary_operation; the object has no _known_boolean_table for    *)
(* _evaluate_equality to read.                                               *)
rec_evaluate(psyir_node, is_not) ==
  CASE psyir_node.type = "Literal" ->
         evaluate_literal(psyir_node, is_not, "Exception")
    [] IsReference(psyir_node) -> single_reference(psyir_node, is_not)
    [] psyir_node.type = "UnaryOperation" ->
         IF psyir_node.operator # "NOT" THEN "AssertionError"
         ELSE rec_evaluate(psyir_node.children[1], ~is_not)
    [] psyir_node.type = "BinaryOperation" ->
         LET boolean0 == rec_evaluate(psyir_node.children[1], is_not)
             boolean1 == rec_evaluate(psyir_node.children[2], is_not)
         IN IF boolean0 \in Exceptions THEN boolean0
            ELSE IF boolean1 \in Exceptions THEN boolean1
            ELSE binary_result(psyir_node.operator, boolean0, boolean1,
                               "AttributeError", "Exception")
    [] OTHER -> "TransformationError"

(* RemoveIfBlockTrans.evaluate *)
evaluate(condition) ==
  LET boolean == rec_evaluate(condition, FALSE)
  IN IF boolean \in Exceptions THEN boolean
     ELSE IF boolean = "ALWAYS_TRUE" THEN "True"
     ELSE IF boolean = "ALWAYS_FALSE" THEN "False"
     ELSE "TransformationError"

(* main_schedule.children.index(if_block) *)
index_of(children, if_block) ==
  CHOOSE idx \in 1..Len(children) : children[idx] = if_block

(* _if_else_replace: the children of the body in the place of the if-block. *)
replace_by(main_schedule, if_block, if_body_schedule) ==
  LET idx == index_of(main_schedule, if_block)
  IN SubSeq(main_schedule, 1, idx - 1) \o if_body_schedule
       \o SubSeq(main_schedule, idx + 1, Len(main_schedule))

(* if_else_replace *)
if_else_replace(main_schedule, if_block, is_true) ==
  IF is_true THEN replace_by(main_schedule, if_block, if_block.if_body)
  ELSE replace_by(main_schedule, if_block, if_block.else_body)

(* _eliminate_ifblock_if_const_condition: the schedule after it, and the    *)
(* exception it ends with, if any.                                           *)
eliminate_ifblock_if_const_condition(main_schedule, if_block) ==
  LET condition == if_block.condition
      is_true == IF condition.type = "Literal"
                 THEN IF condition.value = "true" THEN "True" ELSE "False"
                 ELSE evaluate(condition)
  IN IF is_true \in Exceptions
     THEN [schedule |-> main_schedule, outcome |-> is_true]
     ELSE [schedule |-> if_else_replace(main_schedule, if_block,
                                        is_true = "True"),
           outcome |-> "None"]

RECURSIVE apply_loop(_, _)
(* Lines 303-304: the loop over node.walk(IfBlock). *)
apply_loop(main_schedule, if_blocks) ==
  IF if_blocks = <<>> THEN [schedule |-> main_schedule, outcome |-> "None"]
  ELSE LET step == eliminate_ifblock_if_const_condition(main_schedule,
                                                         Head(if_blocks))
       IN IF step.outcome # "None" THEN step
          ELSE apply_loop(step.schedule, Tail(if_blocks))

(* RemoveIfBlockTrans.validate *)
validate(node) ==
  IF node.type # "Routine" THEN "TransformationError" ELSE "None"

(* RemoveIfBlockTrans.apply on a node whose children are those of its       *)
(* schedule; an if-block has no if-block within it.                          *)
apply(node) ==
  IF validate(node) # "None"
  THEN [schedule |-> node.children, outcome |-> validate(node)]
  ELSE apply_loop(node.children,
                  SelectSeq(node.children, LAMBDA child : child.type = "IfBlock"))

(* Inputs of apply *)

(* The conditions of the if-blocks. *)
Conditions ==
  {BooleanLiteral("true"), BooleanLiteral("false"),
   UnaryOperation("NOT", BooleanLiteral("false")),
   BinaryOperation("OR", BooleanLiteral("false"), BooleanLiteral("true")),
   BinaryOperation("AND", BooleanLiteral("true"), BooleanLiteral("true")),
   BinaryOperation("LT", Reference("i"), IntegerLiteral("5")),
   BinaryOperation("EQ", Reference("np_a"), Reference("np_a")),
   Reference("ln_t"),
   Reference("i")}

(* An assignment, by its text. *)
AssignmentOf(statement_text) == [type |-> "Assignment", text |-> statement_text]

(* Greatest number of statements of the routine. *)
MaxBlocks == 2

(* The statements that can be at place k of a routine. *)
StatementsAt(k) ==
  {AssignmentOf("b = 0")}
    \cup {IfBlock(k, cond, <<AssignmentOf("x = 3")>>, else_body) :
            cond \in Conditions,
            else_body \in {<<>>, <<AssignmentOf("x = 4")>>}}

RECURSIVE Schedules(_)
(* The schedules of k statements. *)
Schedules(k) ==
  IF k = 0 THEN {<<>>}
  ELSE {Append(body, stmt) : body \in Schedules(k - 1), stmt \in StatementsAt(k)}

(* The nodes apply is given: a routine or a literal. *)
Targets ==
  {Node("Routine", "test", "", "", body) :
     body \in UNION {Schedules(k) : k \in 1..MaxBlocks}}
    \cup {IntegerLiteral("1")}

InitRemove ==
  /\ routine \in Targets
  /\ transformed = <<>>
  /\ applied = ""
  /\ OnlyRemoval

Apply ==
  /\ applied = ""
  /\ transformed' = apply(routine).schedule
  /\ applied' = apply(routine).outcome
  /\ UNCHANGED routine
  /\ UNCHANGED not_removal

NextRemove == Apply

SpecRemove == InitRemove /\ [][NextRemove]_vars

----------------------------------------------------------------------------
(* _get_private_list and compute_clauses called again on the same tree *)

(* list(names): a set gives its elements in any order. *)
list_of(names) ==
  {l \in [1..Cardinality(names) -> names] :
     \A x \in names : \E k \in DOMAIN l : l[k] = x}

(* list_result as list(result) gave it, not sorted. *)
unsorted(list_result_0) == list_result_0

(* Line 615: list_result.sort() *)
list_sort(list_result_0) ==
  sort({list_result_0[k] : k \in DOMAIN list_result_0})

(* Lines 562-610: the set result, or the exception raised while building it. *)
private_names(locals, accesses, above) ==
  LET r == local_vars_loop(locals, {})
  IN [result |->
        r.result \cup
          {lower(s) : s \in {x \in DOMAIN accesses :
                               private_signature(accesses[x],
                                 <<"OMPParallelDirective">> \o above)}},
      exc |-> r.exc]

(* What a call gives back: the exception it raised ("" for none) and the    *)
(* lists it returned.                                                        *)
Returned(exc, values) == [exc |-> exc, lists |-> values]

(* _get_private_list, listed being the order list(result) gave. *)
get_private_list(names, listed) ==
  IF names.exc # "" THEN Returned(names.exc, <<>>)
  ELSE Returned("", list_sort(listed))

(* A statement of the body of the governing loop, with the nodes the walk   *)
(* reads: lhs and rhs, the condition, or the loop.                           *)
Statement(kind, nodes) == [kind |-> kind, nodes |-> nodes]

Clauses(private, firstprivate, shared, in, out, exc) ==
  [private_list |-> private, firstprivate_list |-> firstprivate,
   shared_list |-> shared, in_list |-> in, out_list |-> out, exc |-> exc]

(* The element of a set of one element: with  x \in {e}  the value e is      *)
(* computed once, as an assignment to a local variable is.                   *)
the(S) == CHOOSE x \in S : TRUE

(* Lines 1028-1187: one turn of the loop over the statements. *)
statement_clauses(st, cl, parallel, start, stop, step) ==
  IF st.kind = "Assignment"
  THEN the({the({IF l.exc # ""
                 THEN Clauses(cl.private_list, l.firstprivate_list,
                              l.shared_list, cl.in_list, l.out_list, l.exc)
                 ELSE Clauses(cl.private_list, r.firstprivate_list,
                              l.shared_list, r.in_list, l.out_list, r.exc) :
                 r \in {readonly_references(
                          walk(st.nodes[2], ReferenceTypes),
                          l.firstprivate_list, cl.private_list, l.shared_list,
                          cl.in_list, l.out_list, parallel, start, stop,
                          step)}}) :
            l \in {assignment_lhs(st.nodes[1], cl.firstprivate_list,
                                  cl.private_list, cl.shared_list,
                                  cl.out_list, parallel, start, stop)}})
  ELSE LET private == IF st.kind = "Loop"
                      THEN Append(cl.private_list, <<st.nodes[1].name>>)
                      ELSE cl.private_list
           refs == IF st.kind = "Loop" THEN loop_references(st.nodes[1])
                   ELSE walk(st.nodes[1], ReferenceTypes)
       IN the({Clauses(private, r.firstprivate_list, cl.shared_list,
                       r.in_list, cl.out_list, r.exc) :
                 r \in {readonly_references(refs, cl.firstprivate_list,
                                            private, cl.shared_list,
                                            cl.in_list, cl.out_list, parallel,
                                            start, stop, step)}})

RECURSIVE statements_loop(_, _, _, _, _, _)
(* Lines 1026-1187: for statement in statements *)
statements_loop(statements, cl, parallel, start, stop, step) ==
  IF statements = <<>> \/ cl.exc # "" THEN cl
  ELSE the({statements_loop(Tail(statements), next, parallel, start, stop,
                            step) :
              next \in {statement_clauses(Head(statements), cl, parallel,
                                          start, stop, step)}})

(* OMPTaskDirective.compute_clauses on a governing loop and its body. *)
compute_clauses(var, start, stop, step, statements, parallel) ==
  the({the({IF cl.exc # "" THEN Returned(cl.exc, <<>>)
            ELSE Returned("", <<cl.private_list, cl.firstprivate_list,
                                cl.shared_list, cl.in_list, cl.out_list>>) :
            cl \in {statements_loop(statements,
                                    Clauses(<<writer_symbol(var)>>,
                                            h.firstprivate_list, <<>>, <<>>,
                                            <<>>, h.exc),
                                    parallel, start, stop, step)}}) :
       h \in {header_clauses(start, stop, step)}})

(* Inputs of the repeated calls *)

(* The statements of the bodies that are analysed more than once. *)
Statements ==
  {Statement("Assignment",
             <<ArrayReference("a", <<BinaryOperation("ADD", i, One)>>),
               ArrayReference("a", <<BinaryOperation("SUB", i, One)>>)>>),
   Statement("Assignment", <<j, n>>),
   Statement("Assignment", <<ArrayReference("a", <<i>>), j>>),
   Statement("IfBlock",
             <<ArrayReference("a", <<BinaryOperation("ADD", j, One)>>)>>),
   Statement("Loop", <<Loop("j", One, n, One)>>),
   Statement("Loop", <<Loop("k", n, ArrayReference("a", <<i>>), One)>>)}

TaskBodyStatements ==
  UNION {[1..k -> Statements] : k \in 0..MaxStatements}

(* The tree as a call finds it. *)
region_tree == <<region_ancestors, kernel_locals, var_accesses>>

task_tree ==
  <<loop_var, start_val, stop_val, step_val, parallel_private, task_body>>

(* A parallel region, or a task and the body of its loop; no call yet. *)
InitTwice ==
  /\ returns = <<>>
  /\ ValidateIdle /\ GenerateIdle /\ OthersIdle
  /\ result = {}
  /\ signatures = <<>>
  /\ list_result = <<>>
  /\ stage = "idle"
  /\ private_list = <<>>
  /\ firstprivate_list = <<>>
  /\ shared_list = <<>>
  /\ in_list = <<>>
  /\ out_list = <<>>
  /\ ref = Unbound
  /\ statement = NoStatement
  /\ nstatements = 0
  /\ pc = "idle"
  /\ raised = ""
  /\ \/ /\ region_ancestors \in RegionAncestors
        /\ kernel_locals \in KernelLocals
        /\ var_accesses \in {[a |-> x, k |-> y] :
                               x \in ArrayAccessLists, y \in ScalarAccessLists}
        /\ loop_var = ""
        /\ start_val = Unbound
        /\ stop_val = Unbound
        /\ step_val = Unbound
        /\ parallel_private = {}
        /\ task_body = <<>>
     \/ /\ region_ancestors = <<>>
        /\ kernel_locals = <<>>
        /\ var_accesses = <<>>
        /\ loop_var \in LoopVariables
        /\ \E h \in BodyHeaders :
             start_val = h[1] /\ stop_val = h[2] /\ step_val = h[3]
        /\ parallel_private \in SUBSET PrivateCandidates
        /\ task_body \in TaskBodyStatements

(* A call has returned value. *)
Call(function, tree_found, value) ==
  /\ Len(returns) < MaxCalls
  /\ returns' = Append(returns, [function |-> function, tree |-> tree_found,
                                 value |-> value])
  /\ UNCHANGED <<task_body, not_repeat>>

GetPrivateList ==
  /\ var_accesses # <<>>
  /\ LET names == private_names(kernel_locals, var_accesses, region_ancestors)
     IN \E listed \in list_of(names.result) :
          Call("_get_private_list", region_tree,
               get_private_list(names, listed))

ComputeClauses ==
  /\ loop_var # ""
  /\ Call("compute_clauses", task_tree,
          compute_clauses(loop_var, start_val, stop_val, step_val, task_body,
                          parallel_private))

NextTwice == GetPrivateList \/ ComputeClauses

SpecTwice == InitTwice /\ [][NextTwice]_vars

----------------------------------------------------------------------------
(* Properties *)

(* The strings of a list, as a set. *)
Strings(list) == {list[k] : k \in 1..Len(list)}

(* The variable a depend token is about: the text before its "(". *)
BaseName(token) == <<Head(token)>>

DependTokens == Strings(in_list) \cup Strings(out_list)

(* C1: the lists compute_clauses returns are pairwise disjoint as name sets: *)
(* no name is in both private and firstprivate, and no name of private or    *)
(* firstprivate is in shared.                                                *)
C1_ListsDisjoint ==
  pc = "returned" =>
    /\ Strings(private_list) \cap Strings(firstprivate_list) = {}
    /\ Strings(private_list) \cap Strings(shared_list) = {}
    /\ Strings(firstprivate_list) \cap Strings(shared_list) = {}

(* C2: no token of depend(in) or depend(out) has a base name that is in the  *)
(* returned private or firstprivate list.                                    *)
C2_NoTokenForPrivate ==
  pc = "returned" =>
    \A token \in DependTokens :
      BaseName(token) \notin
        Strings(private_list) \cup Strings(firstprivate_list)

(* C3: every name with a token in depend(in) or depend(out) is in the        *)
(* returned shared list.                                                     *)
C3_TokenNamesShared ==
  pc = "returned" =>
    \A token \in DependTokens : BaseName(token) \in Strings(shared_list)

(* The statement part that has just been processed is an array access of    *)
(* the given role: the written array ("lhs") or an array that is read.      *)
WrittenArray ==
  /\ statement.part = "lhs"
  /\ statement.node.type = "ArrayReference"

ReadArray ==
  /\ statement.part \in {"rhs", "condition"}
  /\ IsArrayRef(statement.node)

(* index is v + k or v - k: a Reference, then a Literal. *)
IsOffset(index) ==
  /\ index.type = "BinaryOperation"
  /\ index.operator \in {"ADD", "SUB"}
  /\ index.children[1].type = "Reference"
  /\ index.children[2].type = "Literal"

(* index is a plain Reference. *)
IsPlain(index) == index.type = "Reference"

(* The index text the widening rule asks for: v+(stop - start) for v + k,   *)
(* v-(stop - start) for v - k, and v for a plain v.                         *)
WidenedText(index) ==
  IF IsPlain(index) THEN <<index.name>>
  ELSE <<index.children[1].name,
         IF index.operator = "ADD" THEN "+(" ELSE "-(">>
         \o writer(stop_val) \o <<" - ">> \o writer(start_val) \o <<")">>

(* The variable of an index that is v, v + k or v - k. *)
IndexVariable(index) ==
  IF IsPlain(index) THEN <<index.name>> ELSE <<index.children[1].name>>

(* The access just processed is an array that is not private in the        *)
(* parallel region, every index of it is v, v + k or v - k with v private   *)
(* in the parallel region, and at least one is v + k or v - k.              *)
OffsetAccess(node) ==
  /\ <<node.name>> \notin parallel_private
  /\ \A p \in 1..Len(indices(node)) :
       /\ IsPlain(indices(node)[p]) \/ IsOffset(indices(node)[p])
       /\ IndexVariable(indices(node)[p]) \in parallel_private
  /\ \E p \in 1..Len(indices(node)) : IsOffset(indices(node)[p])

(* The token the widening rule asks for. *)
WidenedToken(node) ==
  <<node.name, "(">>
    \o join(", ", [p \in 1..Len(indices(node)) |->
                     WidenedText(indices(node)[p])])
    \o <<")">>

C5_WriteTokenWidened ==
  (/\ loop_var = "i"
   /\ raised = ""
   /\ statement.kind = "Assignment"
   /\ statement.part = "rhs"
   /\ statement.node = ArrayReference("a", <<BinaryOperation("SUB", i, One)>>)
   /\ In(<<"a", "(", "i", "-(", "n", " - ", "m", ")", ")">>, in_list))
    => ~In(<<"a", "(", "i", ")">>, out_list)

(* C6: a written array with an index that is a plain reference to a variable *)
(* that is not private in the parallel region makes compute_clauses raise   *)
(* the unsupported-pattern error.                                            *)
C6_SharedIndexRaises ==
  (/\ WrittenArray
   /\ \E p \in 1..Len(indices(statement.node)) :
        /\ IsPlain(indices(statement.node)[p])
        /\ <<indices(statement.node)[p].name>> \notin parallel_private)
    => raised = "GenerationError"

(* index is in none of the supported forms: a plain reference, or            *)
(* Reference + Literal, or Reference - Literal.                              *)
UnsupportedIndex(index) == ~IsPlain(index) /\ ~IsOffset(index)

(* C7: an array access, read or written, with an index that is neither a     *)
(* plain reference nor Reference + Literal nor Reference - Literal makes     *)
(* compute_clauses raise the unsupported-pattern error.                      *)
C7_UnsupportedIndexRaises ==
  ((WrittenArray \/ ReadArray)
   /\ \E p \in 1..Len(indices(statement.node)) :
        UnsupportedIndex(indices(statement.node)[p]))
    => raised = "GenerationError"

(* C8: an assignment to a scalar that is private in the parallel region      *)
(* makes compute_clauses raise an error; an assignment to a scalar that is   *)
(* not adds its name to shared and to the write-set.                         *)
C8_PrivateScalarWriteRaises ==
  (statement.part = "lhs" /\ statement.node.type = "Reference") =>
    IF <<statement.node.name>> \in parallel_private
    THEN raised # ""
    ELSE /\ raised = ""
         /\ In(<<statement.node.name>>, shared_list)
         /\ In(<<statement.node.name>>, out_list)

(* The references of the governing loop's start, stop and step. *)
HeaderReferences ==
  Strings(walk(start_val, ReferenceTypes))
    \cup Strings(walk(stop_val, ReferenceTypes))
    \cup Strings(walk(step_val, ReferenceTypes))

(* C9: the governing loop's variable is in the returned private list and the *)
(* name of every reference of its start, stop and step is in the returned    *)
(* firstprivate list.                                                        *)
C9_HeaderFirstprivate ==
  pc = "returned" =>
    /\ In(<<loop_var>>, private_list)
    /\ \A r \in HeaderReferences : In(writer(r), firstprivate_list)

(* C10: an array reference in the start, the stop or the step of the         *)
(* governing loop makes compute_clauses raise the unsupported-pattern error. *)
C10_HeaderArrayRaises ==
  (pc # "start" /\ \E r \in HeaderReferences : IsArrayRef(r))
    => raised = "GenerationError"

----------------------------------------------------------------------------
(* Properties of _get_private_list *)

(* A kernel of the region reports name, in any case, as a local variable. *)
KernelLocal(name) ==
  \E p \in 1..Len(kernel_locals) : lower(kernel_locals[p]) = name

(* The first access is a write in a loop of the region: searching upward     *)
(* from the write and stopping at the region root meets a Loop.              *)
FirstWriteInRegionLoop(accesses) ==
  /\ accesses[1].access_type = "WRITE"
  /\ \E p \in 1..Len(accesses[1].node) : accesses[1].node[p] = "Loop"

(* C11: a scalar with at least two accesses in the region, that no kernel    *)
(* reports as local, is in the private list if and only if its first access  *)
(* is a write inside a loop of the region, wherever the region itself is     *)
(* placed in the tree.                                                       *)
C11_ScalarPrivateIff ==
  (stage = "returned" /\ Len(var_accesses.k) >= 2 /\ ~KernelLocal("k")) =>
    (In("k", list_result) <=> FirstWriteInRegionLoop(var_accesses.k))

(* C12: a scalar with exactly one access in the region, that no kernel       *)
(* reports as local, is not in the private list, whatever the access is and  *)
(* wherever it is.                                                           *)
C12_SingleAccessShared ==
  (stage = "returned" /\ Len(var_accesses.k) = 1 /\ ~KernelLocal("k")) =>
    ~In("k", list_result)

(* The only access to k is a write in a loop of the region, the list is      *)
(* returned and another name is in it.                                       *)
C12_Witness ==
  /\ stage = "returned"
  /\ var_accesses.k = <<Access("WRITE", FALSE, InLoop)>>
  /\ ~KernelLocal("k")
  /\ list_result = <<"a">>

(* The variable has an access with indices. *)
HasIndexedAccess(name) ==
  \E p \in 1..Len(var_accesses[name]) : var_accesses[name][p].is_array

(* C13: a variable with an indexed access in the region is in the private    *)
(* list only if a kernel of the region reports it as local.                  *)
C13_NoArrayPrivate ==
  (stage = "returned" /\ HasIndexedAccess("a") /\ In("a", list_result)) =>
    KernelLocal("a")

----------------------------------------------------------------------------
(* Properties of validate_global_constraints *)

(* Some node above the directive is of one of the classes. *)
HasAncestor(classes) == \E p \in 1..Len(ancestors) : ancestors[p] \in classes

PlainParallel == {"OMPParallelDirective"}

AnyParallel == {"OMPParallelDirective", "OMPParallelDoDirective"}

Serial == {"OMPSingleDirective", "OMPMasterDirective"}

(* C14: on a single or master directive the call succeeds if and only if a   *)
(* plain parallel directive, not the combined parallel do, is above it and   *)
(* no single or master directive is; otherwise it raises GenerationError.    *)
C14_SerialNesting ==
  (directive.type \in Serial /\ outcomes # <<>>) =>
    IF HasAncestor(PlainParallel) /\ ~HasAncestor(Serial)
    THEN outcomes[1] = Ok
    ELSE outcomes[1].exc = "GenerationError"

(* A single directive in a parallel do in a parallel region: the search went *)
(* past the parallel do and the call succeeded.                              *)
C14_Witness ==
  /\ directive.type = "OMPSingleDirective"
  /\ ancestors = <<"OMPParallelDoDirective", "OMPParallelDirective", "Routine">>
  /\ outcomes # <<>>
  /\ outcomes[1] = Ok

(* C15: on a taskwait directive the call raises GenerationError with the     *)
(* message that names the missing OMPParallelDirective if and only if no     *)
(* parallel region of either kind is above it, and succeeds otherwise.       *)
C15_TaskwaitNesting ==
  (directive.type = "OMPTaskwaitDirective" /\ outcomes # <<>>) =>
    IF HasAncestor(AnyParallel)
    THEN outcomes[1] = Ok
    ELSE outcomes[1] = GenerationError("OMPTaskwaitDirective must be inside an OMP parallel region but could not find an ancestor OMPParallelDirective node")

(* The error of a task or taskloop directive that is in no serial region. *)
SerialNestingError(outcome) ==
  /\ outcome.exc = "GenerationError"
  /\ outcome.message \in
       {"OMPTaskDirective must be inside an OMP Serial region but could not find an ancestor node.",
        "OMPTaskloopDirective must be inside an OMP Serial region but could not find an ancestor node"}

(* C16: on a task or taskloop directive the call raises the nesting error    *)
(* if and only if no single or master directive is above it, at any          *)
(* distance.                                                                 *)
C16_TaskNesting ==
  (directive.type \in {"OMPTaskDirective", "OMPTaskloopDirective"}
   /\ outcomes # <<>>) =>
    (SerialNestingError(outcomes[1]) <=> ~HasAncestor(Serial))

(* A taskloop directive in a loop in a single directive: no nesting error. *)
C16_Witness ==
  /\ directive.type = "OMPTaskloopDirective"
  /\ ancestors = <<"Loop", "OMPSingleDirective", "Routine">>
  /\ outcomes # <<>>
  /\ outcomes[1] = Ok

RECURSIVE LoopNest(_, _)
(* body is one loop, and so is each of the next levels - 1 loop bodies. *)
LoopNest(body, levels) ==
  /\ Len(body) = 1
  /\ body[1].type = "Loop"
  /\ (levels <= 1 \/ LoopNest(loop_body(body[1]).children, levels - 1))

(* C18: on a loop directive with collapse = N inside a target or parallel    *)
(* region the call succeeds if the region body is one loop and each of the   *)
(* next N - 1 loop bodies is one loop and nothing else, whatever the         *)
(* innermost loop body holds; otherwise it raises GenerationError.           *)
C18_CollapseNest ==
  (/\ directive.type = "OMPLoopDirective"
   /\ directive.collapse >= 1
   /\ HasAncestor(AnyParallel \cup {"OMPTargetDirective"})
   /\ outcomes # <<>>) =>
    IF LoopNest(directive.dir_body, directive.collapse)
    THEN outcomes[1] = Ok
    ELSE outcomes[1].exc = "GenerationError"

(* The region body is one statement, and it is a loop. *)
SingleLoop(body) == Len(body) = 1 /\ body[1].type = "Loop"

(* C19: on a parallel do directive the call raises GenerationError unless    *)
(* the region body is exactly one statement and that statement is a loop;    *)
(* with such a body and no parallel region above, it succeeds.               *)
C19_ParallelDoSingleLoop ==
  (directive.type = "OMPParallelDoDirective" /\ outcomes # <<>>) =>
    /\ ~SingleLoop(directive.dir_body) => outcomes[1].exc = "GenerationError"
    /\ (SingleLoop(directive.dir_body) /\ ~HasAncestor(AnyParallel)) =>
         outcomes[1] = Ok

(* A parallel do directive, in no parallel region, whose only child is no    *)
(* loop: the call raised.                                                    *)
C19_Witness ==
  /\ directive.type = "OMPParallelDoDirective"
  /\ directive.dir_body = <<statement_x>>
  /\ ~HasAncestor(AnyParallel)
  /\ outcomes # <<>>
  /\ outcomes[1] = GenerationError("can only be applied to a loop but this Node has a child of that type")

(* C20: a call of validate_global_constraints changes neither the directive  *)
(* (its children and clause parameters) nor what is above it, and every      *)
(* later call has the outcome of the first.                                  *)
C20_Unchanged ==
  [][/\ directive' = directive
     /\ ancestors' = ancestors
     /\ \A p \in 1..Len(outcomes') : outcomes'[p] = outcomes'[1]]_vars

(* A loop directive with collapse = 2 over two nested loops, validated      *)
(* twice with success.                                                       *)
C20_Witness ==
  /\ directive.type = "OMPLoopDirective"
  /\ directive.collapse = 2
  /\ directive.dir_body = <<LoopOver("i", <<LoopOver("j", <<statement_x>>)>>)>>
  /\ Len(outcomes) = 2
  /\ outcomes[2] = Ok

----------------------------------------------------------------------------
(* Properties of gen_code *)

(* C21: when validate_global_constraints raises in a call of gen_code, the   *)
(* call has added nothing to parent: no declaration, directive, use          *)
(* statement or assignment.                                                  *)
C21_NothingAddedBeforeValidation ==
  (/\ directive \in GenDirectives
   /\ outcomes # <<>>
   /\ validate_global_constraints(directive, ancestors).outcome # Ok) =>
    added = <<>>

C27_OnlyInnermostIgnored ==
  (/\ method = "_matching_access"
   /\ access.depth > 0
   /\ IsReference(access.root)
   /\ slice(signature(access.root), access.depth + 1)
        = slice(signature(other), access.depth + 1)) =>
    ((answer = "True") <=>
       \A p \in 1..access.depth :
         writer_all(component_indices(access.root)[p])
           = writer_all(component_indices(other)[p]))

(* C25: for every expression built from boolean literals and references     *)
(* whose value is in the tables, with .NOT., .AND., .OR. and ==,             *)
(* evaluate_as_boolean returns ALWAYS_TRUE exactly when the expression is    *)
(* true and ALWAYS_FALSE exactly when it is false.                           *)
C25_EvaluationIsTruth ==
  LET RECURSIVE static(_), truth(_)
      value(r) == IF r.name \in DOMAIN known_boolean_table
                  THEN known_boolean_table[r.name]
                  ELSE known_int_table[r.name]
      comparable(l, r) ==
        /\ l.type = "Reference"
        /\ r.type = "Reference"
        /\ \/ {l.name, r.name} \subseteq DOMAIN known_boolean_table
           \/ {l.name, r.name} \subseteq DOMAIN known_int_table
      static(e) ==
        CASE e.type = "Literal" -> e.datatype = "BOOLEAN"
          [] e.type = "Reference" -> e.name \in DOMAIN known_boolean_table
          [] e.type = "UnaryOperation" -> static(e.children[1])
          [] e.type = "BinaryOperation" ->
               IF e.operator \in {"AND", "OR"}
               THEN static(e.children[1]) /\ static(e.children[2])
               ELSE e.operator = "EQ" /\ comparable(e.children[1], e.children[2])
          [] OTHER -> FALSE
      truth(e) ==
        CASE e.type = "Literal" -> e.value = "true"
          [] e.type = "Reference" -> value(e) = "True"
          [] e.type = "UnaryOperation" -> ~truth(e.children[1])
          [] e.operator = "AND" -> truth(e.children[1]) /\ truth(e.children[2])
          [] e.operator = "OR" -> truth(e.children[1]) \/ truth(e.children[2])
          [] OTHER -> value(e.children[1]) = value(e.children[2])
  IN (evaluation # "" /\ static(expression)) =>
       /\ (evaluation = "ALWAYS_TRUE") <=> truth(expression)
       /\ (evaluation = "ALWAYS_FALSE") <=> ~truth(expression)

(* C26: apply on a routine ends without an exception, and leaves in the     *)
(* schedule every if-block whose condition cannot be decided as it was, and  *)
(* in the place of every other if-block the statements of the branch taken   *)
(* (none when the condition is false and there is no else branch).           *)
C26_UndecidedKeptDecidedReplaced ==
  LET RECURSIVE decided(_), expected(_)
      flip(v) == IF v = "True" THEN "False"
                 ELSE IF v = "False" THEN "True" ELSE v
      decided(c) ==
        CASE c.type = "Literal" ->
               IF c.datatype = "BOOLEAN"
               THEN (IF c.value = "true" THEN "True" ELSE "False")
               ELSE "Unknown"
          [] c.type = "Reference" ->
               IF c.name \in DOMAIN known_reference_bool
               THEN known_reference_bool[c.name] ELSE "Unknown"
          [] c.type = "UnaryOperation" -> flip(decided(c.children[1]))
          [] c.type = "BinaryOperation" /\ c.operator \in {"AND", "OR"} ->
               LET l == decided(c.children[1])
                   r == decided(c.children[2])
               IN IF "Unknown" \in {l, r} THEN "Unknown"
                  ELSE IF c.operator = "AND"
                  THEN (IF l = "True" /\ r = "True" THEN "True" ELSE "False")
                  ELSE (IF l = "True" \/ r = "True" THEN "True" ELSE "False")
          [] c.type = "BinaryOperation" /\ c.operator = "EQ" ->
               IF /\ c.children[1].type = "Reference"
                  /\ c.children[2].type = "Reference"
                  /\ {c.children[1].name, c.children[2].name}
                       \subseteq DOMAIN known_reference_int
               THEN (IF known_reference_int[c.children[1].name]
                          = known_reference_int[c.children[2].name]
                     THEN "True" ELSE "False")
               ELSE "Unknown"
          [] OTHER -> "Unknown"
      expected(body) ==
        IF body = <<>> THEN <<>>
        ELSE (IF Head(body).type # "IfBlock" THEN <<Head(body)>>
              ELSE IF decided(Head(body).condition) = "True"
              THEN Head(body).if_body
              ELSE IF decided(Head(body).condition) = "False"
              THEN Head(body).else_body
              ELSE <<Head(body)>>)
               \o expected(Tail(body))
  IN (applied # "" /\ routine.type = "Routine") =>
       /\ applied = "None"
       /\ transformed = expected(routine.children)

(* C28: in every depend token, a span "+(stop - start)" or "-(stop - start)" *)
(* follows the control variable of the governing loop of the task and no     *)
(* other variable.                                                           *)
C28_SpanOnlyOnLoopVariable ==
  \A token \in DependTokens :
    \A p \in 2..Len(token) :
      token[p] \in {"+(", "-("} => token[p - 1] = loop_var

(* C29: once the walk has met a nested loop and gone on, the control         *)
(* variable of the loop is in the private list and every reference of its    *)
(* start, stop and step has been classified as a read: a variable private in *)
(* the parallel region is private or firstprivate, a shared scalar is in the *)
(* in list, a shared array has a depend token in the in list.                *)
C29_NestedLoopHeaderClassified ==
  (statement.kind = "Loop" /\ raised = "") =>
    /\ In(<<statement.node.name>>, private_list)
    /\ \A c \in 1..3 :
         LET refs == walk(statement.node.children[c], ReferenceTypes)
         IN \A k \in 1..Len(refs) :
              IF <<refs[k].name>> \in parallel_private
              THEN \/ In(<<refs[k].name>>, private_list)
                   \/ In(<<refs[k].name>>, firstprivate_list)
              ELSE IF IsArrayRef(refs[k])
              THEN \E t \in 1..Len(in_list) :
                     /\ Len(in_list[t]) > 1
                     /\ in_list[t][1] = refs[k].name
                     /\ in_list[t][2] = "("
              ELSE In(<<refs[k].name>>, in_list)

(* The walk has gone past  do j = n, a(i)  with i private in the parallel    *)
(* region: j is private, n is in the in list and a has a depend token.       *)
C29_Witness ==
  /\ statement.kind = "Loop"
  /\ raised = ""
  /\ statement.node.children[1] = n
  /\ IsArrayRef(statement.node.children[2])
  /\ In(<<statement.node.name>>, private_list)
  /\ In(<<"n">>, in_list)

(* C30: none of the five lists that compute_clauses returns holds an entry   *)
(* twice.                                                                    *)
C30_NoEntryTwice ==
  pc = "returned" =>
    \A entries \in {private_list, firstprivate_list, shared_list, in_list,
                    out_list} :
      \A a, b \in 1..Len(entries) : entries[a] = entries[b] => a = b

====
